---- MODULE Spec2Model ----
(***************************************************************************)
(* ooosh-utilities: the Monday.com webhook automations                     *)
(*   date-copy-automation.js   (source date -> target date, -1 day rule)   *)
(*   crew-transport-link.js    (HireHop link -> job id, portal link)       *)
(*   bulk-date-migration.js    (the reverse back-fill, +1 day rule)        *)
(*   crew-email-copy, qh-client-linked, quote-confirmed-automation,        *)
(*   address-book-item-created, address-book-updates (request dispatch,    *)
(*   remote calls and their retry, responses)                              *)
(*                                                                         *)
(* A JavaScript string is a tuple of one-character strings, so that the    *)
(* regular expression of extractJobId and the parsing and formatting of    *)
(* dates are computed character by character.  null/undefined is Null.     *)
(***************************************************************************)
EXTENDS Integers, Sequences, FiniteSets, TLC

VARIABLES
    handler,    \* which automation the webhook URL points at: "dca" or "ctl"
    item,       \* the board item: its typed column values, owned by Monday.com
    queue,      \* webhook deliveries Monday.com has still to make
    inv,        \* the invocations in flight, one per slot
    last,       \* the invocation that returned most recently
    nEdits,     \* number of external edits made so far
    sinceEdit,  \* handler writes applied since the last external edit
    settled,    \* a guard run ended 200 and nothing was edited since its fetch
    nOdd,       \* number of requests received that are not webhook deliveries
    fin,        \* input of the derivation rules (the rules on their own)
    fout,       \* their outputs
    run         \* one invocation of any of the seven handlers, remote call by
                \* remote call: its request, its position, the trace of calls

vars == <<handler, item, queue, inv, last, nEdits, sinceEdit, settled, nOdd, fin, fout, run>>

-----------------------------------------------------------------------------
(* Bounds of the model *)

MaxEdits == 2       \* external edits of the item
MaxOdd == 2         \* requests that are not deliveries of a column change
MaxQueue == 2       \* deliveries pending at once
NumYears == 2       \* width of the year window of the date derivations
FirstYear == 2024   \* its first year

-----------------------------------------------------------------------------
(* JavaScript values *)

Null == <<"NULL">>
Empty == <<>>

\* JS truthiness of a string-or-null value
Truthy(v) == v # Null /\ v # Empty

\* `v || null`
OrNull(v) == IF Truthy(v) THEN v ELSE Null

Digits == <<"0", "1", "2", "3", "4", "5", "6", "7", "8", "9">>
DigitSet == {Digits[i] : i \in 1..10}
IsDigit(c) == c \in DigitSet
DigitVal(c) == CHOOSE n \in 0..9 : Digits[n + 1] = c

\* String(n) for n >= 0
RECURSIVE NumStr(_)
NumStr(n) == IF n < 10 THEN <<Digits[n + 1]>>
             ELSE NumStr(n \div 10) \o <<Digits[(n % 10) + 1]>>

\* s.padStart(2, '0')
PadStart2(s) == IF Len(s) < 2 THEN <<"0">> \o s ELSE s

\* value of a digit string
RECURSIVE StrNum(_)
StrNum(s) == IF s = <<>> THEN 0
             ELSE 10 * StrNum(SubSeq(s, 1, Len(s) - 1)) + DigitVal(s[Len(s)])

-----------------------------------------------------------------------------
(* ECMAScript Date, in whole hours since the epoch (every time value that   *)
(* occurs is a whole number of hours: T12:00:00Z plus whole days)           *)

HoursPerDay == 24
NoonHour == 12

DaysInYear(y) == IF y % 4 # 0 THEN 365
                 ELSE IF y % 100 # 0 THEN 366
                 ELSE IF y % 400 # 0 THEN 365 ELSE 366

DayFromYear(y) == 365 * (y - 1970) + ((y - 1969) \div 4)
                  - ((y - 1901) \div 100) + ((y - 1601) \div 400)

Day(t) == t \div HoursPerDay
TimeWithinDay(t) == t % HoursPerDay

\* the largest y with DayFromYear(y) <= Day(t); it lies within two years of
\* the estimate 1970 + Day(t) / 365
YearFromTime(t) ==
    LET d == Day(t)
        e == 1970 + (d \div 365)
    IN  CHOOSE y \in (e - 2)..(e + 1) : DayFromYear(y) <= d /\ d < DayFromYear(y + 1)

InLeapYear(t) == IF DaysInYear(YearFromTime(t)) = 366 THEN 1 ELSE 0
DayWithinYear(t) == Day(t) - DayFromYear(YearFromTime(t))

\* first day-within-year of month m (0-based), for leap = 0 or 1
MonthStart(m, leap) ==
    CASE m = 0 -> 0
      [] m = 1 -> 31
      [] m = 2 -> 59 + leap
      [] m = 3 -> 90 + leap
      [] m = 4 -> 120 + leap
      [] m = 5 -> 151 + leap
      [] m = 6 -> 181 + leap
      [] m = 7 -> 212 + leap
      [] m = 8 -> 243 + leap
      [] m = 9 -> 273 + leap
      [] m = 10 -> 304 + leap
      [] m = 11 -> 334 + leap
      [] m = 12 -> 365 + leap

MonthFromTime(t) ==
    LET leap == InLeapYear(t)
        dwy == DayWithinYear(t)
    IN  CHOOSE m \in 0..11 : MonthStart(m, leap) <= dwy /\ dwy < MonthStart(m + 1, leap)

DateFromTime(t) ==
    DayWithinYear(t) - MonthStart(MonthFromTime(t), InLeapYear(t)) + 1

\* MakeDay(year, month, date) for month in 0..11; date may be 0 or past the month end
MakeDay(y, m, dt) ==
    DayFromYear(y) + MonthStart(m, IF DaysInYear(y) = 366 THEN 1 ELSE 0) + dt - 1

MakeDate(day, time) == day * HoursPerDay + time

\* The strings the date columns hold: YYYY-MM-DD of a calendar day
IsDateString(s) ==
    /\ Len(s) = 10
    /\ s[5] = "-" /\ s[8] = "-"
    /\ \A i \in {1, 2, 3, 4, 6, 7, 9, 10} : IsDigit(s[i])
    /\ StrNum(SubSeq(s, 6, 7)) \in 1..12
    /\ StrNum(SubSeq(s, 9, 10)) >= 1
    /\ MakeDay(StrNum(SubSeq(s, 1, 4)), StrNum(SubSeq(s, 6, 7)) - 1,
               StrNum(SubSeq(s, 9, 10)))
         < MakeDay(StrNum(SubSeq(s, 1, 4)), StrNum(SubSeq(s, 6, 7)), 1)

\* new Date(dateString + 'T12:00:00Z'): the time value t, or Invalid Date (nan)
DateParseNoon(s) ==
    IF IsDateString(s)
    THEN [nan |-> FALSE,
          t |-> MakeDate(MakeDay(StrNum(SubSeq(s, 1, 4)), StrNum(SubSeq(s, 6, 7)) - 1,
                                 StrNum(SubSeq(s, 9, 10))), NoonHour)]
    ELSE [nan |-> TRUE, t |-> 0]

\* date.getUTCDate()
GetUTCDate(date) == DateFromTime(date.t)

\* date.setUTCDate(dt), on a valid date
SetUTCDate(date, dt) ==
    [nan |-> FALSE,
     t |-> MakeDate(MakeDay(YearFromTime(date.t), MonthFromTime(date.t), dt),
                    TimeWithinDay(date.t))]

NaNStr == <<"N", "a", "N">>

\* `${year}-${month}-${day}` with month and day padded to two digits
FormatYMD(date) ==
    IF date.nan THEN NaNStr \o <<"-">> \o NaNStr \o <<"-">> \o NaNStr
    ELSE NumStr(YearFromTime(date.t)) \o <<"-">>
         \o PadStart2(NumStr(MonthFromTime(date.t) + 1)) \o <<"-">>
         \o PadStart2(NumStr(DateFromTime(date.t)))

\* a plausible slip: the day is taken off at the start of the month only by
\* clamping, so the first of a month stays where it is
subtractOneDay_Clamp(dateString) ==
    LET date == DateParseNoon(dateString)
    IN  IF date.nan THEN FormatYMD(date)
        ELSE FormatYMD(SetUTCDate(date, IF GetUTCDate(date) > 1
                                        THEN GetUTCDate(date) - 1 ELSE 1))

subtractOneDay(dateString) ==
    LET date == DateParseNoon(dateString)
    IN  IF date.nan THEN FormatYMD(date)
        ELSE FormatYMD(SetUTCDate(date, GetUTCDate(date) - 1))

\* a slip: the day is not carried over the end of the month
addOneDay_NoCarry(dateString) ==
    LET date == DateParseNoon(dateString)
    IN  IF date.nan THEN FormatYMD(date)
        ELSE FormatYMD(SetUTCDate(date, IF GetUTCDate(date) < 28
                                        THEN GetUTCDate(date) + 1
                                        ELSE GetUTCDate(date)))

addOneDay(dateString) ==
    LET date == DateParseNoon(dateString)
    IN  IF date.nan THEN FormatYMD(date)
        ELSE FormatYMD(SetUTCDate(date, GetUTCDate(date) + 1))

-----------------------------------------------------------------------------
(* The derivation rules *)

REHEARSAL_LABEL == <<"R", "e", "h", "e", "a", "r", "s", "a", "l">>

\* date-copy-automation: target date from the source date and the status label
DcaTargetDate(sourceDate, vehicleStatus) ==
    IF vehicleStatus = REHEARSAL_LABEL THEN sourceDate
    ELSE subtractOneDay(sourceDate)

\* bulk-date-migration: the reverse rule
BulkTargetDate(sourceDate, vehicleStatus) ==
    IF vehicleStatus = REHEARSAL_LABEL THEN sourceDate
    ELSE addOneDay(sourceDate)

-----------------------------------------------------------------------------
(* Board configuration *)

BOARD_ID == "2431480012"
OTHER_BOARD == "2431071567"
Undefined == "undefined"

SOURCE_DATE_COLUMN == "date_mkzzmse7"
TARGET_DATE_COLUMN == "dup__of_hire_starts"
VEHICLE_STATUS_COLUMN == "dup__of_vehicle_"
SOURCE_LINK_COLUMN == "link"
TARGET_LINK_COLUMN == "link_mm07k8n4"
TARGET_TEXT_COLUMN == "text_mm07fcs"
OTHER_COLUMN == "name"

\* the seven webhook handlers: date-copy-automation, crew-transport-link,
\* crew-email-copy, qh-client-linked, quote-confirmed-automation,
\* address-book-item-created, address-book-updates
Handlers == {"dca", "ctl", "cec", "qhl", "qca", "abc", "abu"}

ADDRESS_BOOK_BOARD_ID == "2431071567"
CREWED_JOBS_BOARD_ID == "18398014629"

\* the board each handler is configured for
BoardOf(h) ==
    CASE h = "cec" -> CREWED_JOBS_BOARD_ID
      [] h \in {"abc", "abu"} -> ADDRESS_BOOK_BOARD_ID
      [] OTHER -> BOARD_ID

\* some board that is not the handler's
OtherBoardOf(h) == IF BoardOf(h) = OTHER_BOARD THEN BOARD_ID ELSE OTHER_BOARD

\* crew-email-copy
CONNECT_COLUMN == "board_relation_mm09gh84"
CEC_TARGET_TEXT_COLUMN == "text_mm09da3v"
\* qh-client-linked
QHL_TRIGGER_COLUMN == "connect_boards7"
COLUMNS_clientEmail == "text1"
COLUMNS_clientName == "text6"
\* quote-confirmed-automation
QCA_TRIGGER_COLUMN == "status6"
COLUMNS_vehicleStatus == "status8"
\* address-book-item-created and address-book-updates
COLUMNS_itemIdCopy == "item_id__gc_"
COLUMNS_fullName == "text_14"
COLUMNS_firstName == "text"
AB_COLUMNS_email == "email_1"
AB_COLUMNS_linkedQH == "link_to_duplicate_of_incoming___pending_enquiries"
AB_COLUMNS_lastContactDate == "date4"

DISPLAY_TEXT == <<"Transport / crew">>
PORTAL_BASE_URL ==
    <<"https://ooosh-freelancer-portal.netlify.app/staff/crew-transport?job=">>

AllColumns == {SOURCE_DATE_COLUMN, TARGET_DATE_COLUMN, VEHICLE_STATUS_COLUMN,
               SOURCE_LINK_COLUMN, TARGET_LINK_COLUMN, TARGET_TEXT_COLUMN}

\* the columns whose change is delivered to the handler's webhook
\* (address-book-item-created has no column filter)
MONITORED_COLUMNS(h) ==
    CASE h = "dca" -> {SOURCE_DATE_COLUMN, VEHICLE_STATUS_COLUMN}
      [] h = "ctl" -> {SOURCE_LINK_COLUMN}
      [] h = "cec" -> {CONNECT_COLUMN}
      [] h = "qhl" -> {QHL_TRIGGER_COLUMN}
      [] h = "qca" -> {QCA_TRIGGER_COLUMN}
      [] h = "abu" -> {"name", Undefined, AB_COLUMNS_email, AB_COLUMNS_linkedQH}
      [] OTHER -> {}

\* the columns the handler's mutations carry, each with the board of the item
\* the mutation is sent for
WRITTEN_COLUMNS(h) ==
    CASE h = "dca" -> {<<BOARD_ID, TARGET_DATE_COLUMN>>}
      [] h = "ctl" -> {<<BOARD_ID, TARGET_LINK_COLUMN>>, <<BOARD_ID, TARGET_TEXT_COLUMN>>,
                       <<BOARD_ID, SOURCE_LINK_COLUMN>>}
      [] h = "cec" -> {<<CREWED_JOBS_BOARD_ID, CEC_TARGET_TEXT_COLUMN>>}
      [] h = "qhl" -> {<<BOARD_ID, COLUMNS_clientEmail>>, <<BOARD_ID, COLUMNS_clientName>>}
      [] h = "qca" -> {<<BOARD_ID, COLUMNS_vehicleStatus>>}
      [] h = "abc" -> {<<ADDRESS_BOOK_BOARD_ID, COLUMNS_itemIdCopy>>,
                       <<ADDRESS_BOOK_BOARD_ID, COLUMNS_fullName>>,
                       <<ADDRESS_BOOK_BOARD_ID, COLUMNS_firstName>>}
      [] h = "abu" -> {<<ADDRESS_BOOK_BOARD_ID, COLUMNS_fullName>>,
                       <<ADDRESS_BOOK_BOARD_ID, COLUMNS_firstName>>,
                       <<ADDRESS_BOOK_BOARD_ID, AB_COLUMNS_lastContactDate>>,
                       <<BOARD_ID, COLUMNS_clientName>>,
                       <<BOARD_ID, COLUMNS_clientEmail>>}
      [] OTHER -> {}

\* a mutation of handler h is delivered to handler g: it carries a column of
\* g's board that g's webhooks are subscribed to
Triggers(h, g) ==
    \E bc \in WRITTEN_COLUMNS(h) : bc[1] = BoardOf(g) /\ bc[2] \in MONITORED_COLUMNS(g)

\* some column the handler does not monitor
OtherColumnOf(h) == IF h = "abu" THEN AB_COLUMNS_lastContactDate ELSE OTHER_COLUMN

-----------------------------------------------------------------------------
(* Column values on the wire: {id, text, value}, value a JSON string or null *)

\* JSON.parse(column.value): kind "null" (no value), "bad" (does not parse, or
\* parses to something that holds none of the fields), "obj" (an object)
NoValue == [kind |-> "null", url |-> Null, text |-> Null, date |-> Null,
            label |-> Null, index |-> FALSE]
ObjValue == [NoValue EXCEPT !.kind = "obj"]

\* what Monday.com returns for a link column holding (url, text)
WireLink(c) ==
    IF c.url = Empty THEN [text |-> Empty, value |-> NoValue]
    ELSE [text |-> IF c.text = Empty THEN c.url ELSE c.text \o <<" - ">> \o c.url,
          value |-> [ObjValue EXCEPT !.url = c.url, !.text = c.text]]

\* ... for a text column
WireText(t) == [text |-> t, value |-> IF t = Empty THEN NoValue
                                      ELSE [NoValue EXCEPT !.kind = "bad"]]

\* ... for a date column holding YYYY-MM-DD
WireDate(d) ==
    IF d = Empty THEN [text |-> Empty, value |-> NoValue]
    ELSE [text |-> d, value |-> [ObjValue EXCEPT !.date = d]]

\* ... for a status column: the value JSON carries the index, the text the label
WireStatus(l) ==
    IF l = Empty THEN [text |-> Empty, value |-> NoValue]
    ELSE [text |-> l, value |-> [ObjValue EXCEPT !.index = TRUE]]

\* items(ids: [id]) { column_values { id text value } }
ColumnValues(it) ==
    [c \in AllColumns |->
        CASE c = SOURCE_LINK_COLUMN -> WireLink(it.link)
          [] c = TARGET_LINK_COLUMN -> WireLink(it.portal)
          [] c = TARGET_TEXT_COLUMN -> WireText(it.text7)
          [] c = SOURCE_DATE_COLUMN -> WireDate(it.src)
          [] c = TARGET_DATE_COLUMN -> WireDate(it.tgt)
          [] c = VEHICLE_STATUS_COLUMN -> WireStatus(it.status)]

-----------------------------------------------------------------------------
(* Field extractors *)

\* date-copy-automation getColumnValue
getColumnValue(columnValues, columnId) ==
    IF columnId \notin DOMAIN columnValues THEN Null
    ELSE LET column == columnValues[columnId]
         IN  IF column.value.kind = "obj" /\ Truthy(column.value.date)
             THEN column.value.date
             ELSE OrNull(column.text)

\* a slip: a payload with an index and no label gives the index
getStatusLabel_Index(columnValues, columnId) ==
    IF columnId \notin DOMAIN columnValues THEN Null
    ELSE LET column == columnValues[columnId]
         IN  IF column.value.kind = "obj" /\ Truthy(column.value.label)
             THEN column.value.label
             ELSE IF column.value.kind = "obj" /\ column.value.index
             THEN <<"1">>
             ELSE OrNull(column.text)

\* date-copy-automation getStatusLabel
getStatusLabel(columnValues, columnId) ==
    IF columnId \notin DOMAIN columnValues THEN Null
    ELSE LET column == columnValues[columnId]
         IN  IF column.value.kind = "obj" /\ Truthy(column.value.label)
             THEN column.value.label
             ELSE IF column.value.kind = "obj" /\ column.value.index
             THEN OrNull(column.text)
             ELSE OrNull(column.text)

\* crew-transport-link getLinkUrl
getLinkUrl(columnValues, columnId) ==
    IF columnId \notin DOMAIN columnValues THEN Null
    ELSE LET column == columnValues[columnId]
         IN  IF column.value.kind = "obj" /\ Truthy(column.value.url)
             THEN column.value.url
             ELSE OrNull(column.text)

\* crew-transport-link getLinkDisplayText
getLinkDisplayText(columnValues, columnId) ==
    IF columnId \notin DOMAIN columnValues THEN Null
    ELSE LET column == columnValues[columnId]
         IN  IF column.value.kind = "obj" /\ Truthy(column.value.text)
             THEN column.value.text
             ELSE Null

\* crew-transport-link getTextColumnValue
getTextColumnValue(columnValues, columnId) ==
    IF columnId \notin DOMAIN columnValues THEN Null
    ELSE OrNull(columnValues[columnId].text)

\* url.match(/[?&]id=(\d+)/): the positions where the pattern matches
IdMatchAt(url, i) ==
    /\ i + 4 <= Len(url)
    /\ url[i] \in {"?", "&"}
    /\ url[i + 1] = "i" /\ url[i + 2] = "d" /\ url[i + 3] = "="
    /\ IsDigit(url[i + 4])

\* the longest run of digits of url that starts at position i
RECURSIVE DigitRun(_, _)
DigitRun(url, i) ==
    IF i <= Len(url) /\ IsDigit(url[i]) THEN <<url[i]>> \o DigitRun(url, i + 1)
    ELSE <<>>

\* a slip: the pattern is /(\d+)/, the first run of digits anywhere in the URL
extractJobId_AnyDigits(url) ==
    IF ~Truthy(url) THEN Null
    ELSE IF \E i \in 1..Len(url) : IsDigit(url[i])
    THEN LET first == CHOOSE i \in 1..Len(url) :
                         /\ IsDigit(url[i])
                         /\ \A j \in 1..(i - 1) : ~IsDigit(url[j])
         IN  DigitRun(url, first)
    ELSE Null

\* a slip: the pattern is /\?id=(\d+)/, the parameter in first position only
extractJobId_FirstOnly(url) ==
    IF ~Truthy(url) THEN Null
    ELSE IF \E i \in 1..Len(url) : IdMatchAt(url, i) /\ url[i] = "?"
    THEN LET first == CHOOSE i \in 1..Len(url) :
                         /\ IdMatchAt(url, i) /\ url[i] = "?"
                         /\ \A j \in 1..(i - 1) : ~(IdMatchAt(url, j) /\ url[j] = "?")
         IN  DigitRun(url, first + 4)
    ELSE Null

\* crew-transport-link extractJobId
extractJobId(url) ==
    IF ~Truthy(url) THEN Null
    ELSE IF \E i \in 1..Len(url) : IdMatchAt(url, i)
    THEN LET first == CHOOSE i \in 1..Len(url) :
                         /\ IdMatchAt(url, i)
                         /\ \A j \in 1..(i - 1) : ~IdMatchAt(url, j)
         IN  DigitRun(url, first + 4)
    ELSE Null

-----------------------------------------------------------------------------
(* Requests, responses, mutations *)

ITEM == "1001"
NO_ITEM == "9999"

\* event.httpMethod and JSON.parse(event.body): json is FALSE for a body that
\* does not parse; challenge and event are the payload's fields
Delivery(col) ==
    [method |-> "POST", json |-> TRUE, challenge |-> Null, event |-> TRUE,
     itemId |-> ITEM, columnId |-> col, boardId |-> BOARD_ID]

NoReq == [Delivery(Undefined) EXCEPT !.method = "none"]

\* the monitored column a verification request names when it carries an event
TriggerColumn(h) ==
    CASE h = "dca" -> VEHICLE_STATUS_COLUMN
      [] h = "ctl" -> SOURCE_LINK_COLUMN
      [] h = "abc" -> Undefined
      [] h = "abu" -> AB_COLUMNS_email
      [] OTHER -> CHOOSE c \in MONITORED_COLUMNS(h) : TRUE

\* every shape of request the function URL can receive
AllRequests(h) ==
    {[Delivery(Undefined) EXCEPT !.method = "OPTIONS", !.event = FALSE],
     [Delivery(Undefined) EXCEPT !.method = "OPTIONS", !.json = FALSE,
                                 !.event = FALSE],
     [Delivery(Undefined) EXCEPT !.method = "GET", !.event = FALSE],
     [Delivery(Undefined) EXCEPT !.json = FALSE, !.event = FALSE],
     [Delivery(Undefined) EXCEPT !.challenge = <<"t", "o", "k">>, !.event = FALSE],
     [Delivery(TriggerColumn(h)) EXCEPT !.challenge = <<"t", "o", "k">>,
                                        !.boardId = BoardOf(h)],
     [Delivery(Undefined) EXCEPT !.challenge = Empty, !.event = FALSE],
     [Delivery(TriggerColumn(h)) EXCEPT !.challenge = Empty,
                                        !.boardId = BoardOf(h)],
     [Delivery(Undefined) EXCEPT !.event = FALSE]}
    \cup [method : {"POST"}, json : {TRUE}, challenge : {Null}, event : {TRUE},
          itemId : {ITEM, NO_ITEM},
          columnId : MONITORED_COLUMNS(h) \cup {OtherColumnOf(h), Undefined},
          boardId : {BoardOf(h), OtherBoardOf(h), Undefined}]

NoResp == [status |-> 0, msg |-> "", challenge |-> Null]
Resp(status, msg) == [status |-> status, msg |-> msg, challenge |-> Null]

\* a column value as a mutation carries it
LinkW(url, text) == [kind |-> "link", url |-> url, text |-> text, date |-> Null]
TextW(text) == [kind |-> "text", url |-> Null, text |-> text, date |-> Null]
DateW(date) == [kind |-> "date", url |-> Null, text |-> Null, date |-> date]

\* change_multiple_column_values applied by Monday.com: every column of the
\* mutation (a set of <<column id, value>>) is overwritten, no other is touched
ApplyMutation(it, mut) ==
    LET has(c) == \E p \in mut : p[1] = c
        val(c) == (CHOOSE p \in mut : p[1] = c)[2]
    IN  [link   |-> IF has(SOURCE_LINK_COLUMN)
                    THEN [url |-> val(SOURCE_LINK_COLUMN).url,
                          text |-> val(SOURCE_LINK_COLUMN).text]
                    ELSE it.link,
         portal |-> IF has(TARGET_LINK_COLUMN)
                    THEN [url |-> val(TARGET_LINK_COLUMN).url,
                          text |-> val(TARGET_LINK_COLUMN).text]
                    ELSE it.portal,
         text7  |-> IF has(TARGET_TEXT_COLUMN) THEN val(TARGET_TEXT_COLUMN).text
                    ELSE it.text7,
         src    |-> IF has(SOURCE_DATE_COLUMN) THEN val(SOURCE_DATE_COLUMN).date
                    ELSE it.src,
         tgt    |-> IF has(TARGET_DATE_COLUMN) THEN val(TARGET_DATE_COLUMN).date
                    ELSE it.tgt,
         status |-> it.status]

-----------------------------------------------------------------------------
(* The handlers, cut at their awaits: up to the fetch, from the fetched item  *)
(* to the mutation, and the mutation's return                                *)

\* a slip: the board filter without its `boardId &&`
BoardMismatch_Strict(h, boardId) == boardId # BoardOf(h)

\* `boardId && boardId !== BOARD_ID`
BoardMismatch(h, boardId) == boardId # Undefined /\ boardId # BoardOf(h)

\* a slip: the catch block answers a request it could not process with 400
CatchResp_BadRequest == Resp(400, "error")

\* the handler's catch block: 500 with {error: error.message}
CatchResp == Resp(500, "error")

\* exports.handler up to its first remote call: the response it returns
\* before any remote call, or NoResp when it goes on.  address-book-updates
\* filters on the board and then on the column, address-book-item-created on
\* the board alone, the others on the column and then on the board
PreFetch(h, req) ==
    IF req.method = "OPTIONS" THEN Resp(200, "")
    ELSE IF req.method # "POST" THEN Resp(405, "Method not allowed")
    ELSE IF ~req.json THEN CatchResp
    ELSE IF Truthy(req.challenge)
    THEN [status |-> 200, msg |-> "challenge", challenge |-> req.challenge]
    ELSE IF ~req.event THEN Resp(200, "No event to process")
    ELSE IF h = "abu" /\ BoardMismatch(h, req.boardId)
    THEN Resp(200, "Board not monitored")
    ELSE IF h # "abc" /\ req.columnId \notin MONITORED_COLUMNS(h)
    THEN Resp(200, "Column not monitored")
    ELSE IF BoardMismatch(h, req.boardId)
    THEN Resp(200, "Board not monitored")
    ELSE NoResp

\* a slip the file header of crew-transport-link records (v1.1): the guard
\* looks at the display text alone
CtlGuardSkip_DisplayOnly(currentDisplayText, currentText7Value, jobId) ==
    currentDisplayText = jobId

\* a slip: the guard compares the display text with nothing it can equal
CtlGuardSkip_Never(currentDisplayText, currentText7Value, jobId) ==
    FALSE

\* crew-transport-link: LOOP PROTECTION
CtlGuardSkip(currentDisplayText, currentText7Value, jobId) ==
    currentDisplayText = jobId /\ currentText7Value = jobId

\* a slip: no check of the current target date
DcaGuardSkip_Never(currentTargetDate, targetDate) ==
    FALSE

\* date-copy-automation: "Check current target date to avoid unnecessary updates"
DcaGuardSkip(currentTargetDate, targetDate) ==
    currentTargetDate = targetDate

\* a slip: the source link is given the portal link's display text
CtlDecide_WrongDisplay(cv) ==
    LET hirehopUrl == getLinkUrl(cv, SOURCE_LINK_COLUMN)
        currentDisplayText == getLinkDisplayText(cv, SOURCE_LINK_COLUMN)
        jobId == extractJobId(hirehopUrl)
        currentText7Value == getTextColumnValue(cv, TARGET_TEXT_COLUMN)
    IN  IF ~Truthy(hirehopUrl)
        THEN [resp |-> Resp(200, "No URL to process"), mut |-> {}]
        ELSE IF ~Truthy(jobId)
        THEN [resp |-> Resp(200, "Could not extract job ID from URL"), mut |-> {}]
        ELSE IF CtlGuardSkip(currentDisplayText, currentText7Value, jobId)
        THEN [resp |-> Resp(200, "Already fully processed"), mut |-> {}]
        ELSE [resp |-> NoResp,
              mut |-> {<<TARGET_LINK_COLUMN, LinkW(PORTAL_BASE_URL \o jobId, DISPLAY_TEXT)>>,
                       <<TARGET_TEXT_COLUMN, TextW(jobId)>>,
                       <<SOURCE_LINK_COLUMN, LinkW(hirehopUrl, DISPLAY_TEXT)>>}]

\* a slip: the mutation leaves the source link column out
CtlDecide_NoSourceRewrite(cv) ==
    LET hirehopUrl == getLinkUrl(cv, SOURCE_LINK_COLUMN)
        currentDisplayText == getLinkDisplayText(cv, SOURCE_LINK_COLUMN)
        jobId == extractJobId(hirehopUrl)
        currentText7Value == getTextColumnValue(cv, TARGET_TEXT_COLUMN)
    IN  IF ~Truthy(hirehopUrl)
        THEN [resp |-> Resp(200, "No URL to process"), mut |-> {}]
        ELSE IF ~Truthy(jobId)
        THEN [resp |-> Resp(200, "Could not extract job ID from URL"), mut |-> {}]
        ELSE IF CtlGuardSkip(currentDisplayText, currentText7Value, jobId)
        THEN [resp |-> Resp(200, "Already fully processed"), mut |-> {}]
        ELSE [resp |-> NoResp,
              mut |-> {<<TARGET_LINK_COLUMN, LinkW(PORTAL_BASE_URL \o jobId, DISPLAY_TEXT)>>,
                       <<TARGET_TEXT_COLUMN, TextW(jobId)>>}]

\* crew-transport-link from the fetched column values on: the response
\* (NoResp when it goes on to write) and the mutation
CtlDecide(cv) ==
    LET hirehopUrl == getLinkUrl(cv, SOURCE_LINK_COLUMN)
        currentDisplayText == getLinkDisplayText(cv, SOURCE_LINK_COLUMN)
        jobId == extractJobId(hirehopUrl)
        currentText7Value == getTextColumnValue(cv, TARGET_TEXT_COLUMN)
    IN  IF ~Truthy(hirehopUrl)
        THEN [resp |-> Resp(200, "No URL to process"), mut |-> {}]
        ELSE IF ~Truthy(jobId)
        THEN [resp |-> Resp(200, "Could not extract job ID from URL"), mut |-> {}]
        ELSE IF CtlGuardSkip(currentDisplayText, currentText7Value, jobId)
        THEN [resp |-> Resp(200, "Already fully processed"), mut |-> {}]
        ELSE [resp |-> NoResp,
              mut |-> {<<TARGET_LINK_COLUMN, LinkW(PORTAL_BASE_URL \o jobId, DISPLAY_TEXT)>>,
                       <<TARGET_TEXT_COLUMN, TextW(jobId)>>,
                       <<SOURCE_LINK_COLUMN, LinkW(hirehopUrl, jobId)>>}]

\* a slip: the day is taken off the date the target column holds
DcaDecide_Relative(cv) ==
    LET sourceDate == getColumnValue(cv, SOURCE_DATE_COLUMN)
        vehicleStatus == getStatusLabel(cv, VEHICLE_STATUS_COLUMN)
        currentTargetDate == getColumnValue(cv, TARGET_DATE_COLUMN)
        targetDate == DcaTargetDate(IF Truthy(currentTargetDate) THEN currentTargetDate
                                    ELSE sourceDate, vehicleStatus)
    IN  IF ~Truthy(sourceDate)
        THEN [resp |-> Resp(200, "No date to copy"), mut |-> {}]
        ELSE IF DcaGuardSkip(currentTargetDate, targetDate)
        THEN [resp |-> Resp(200, "No update needed - date already correct"), mut |-> {}]
        ELSE [resp |-> NoResp, mut |-> {<<TARGET_DATE_COLUMN, DateW(targetDate)>>}]

\* date-copy-automation from the fetched column values on
DcaDecide(cv) ==
    LET sourceDate == getColumnValue(cv, SOURCE_DATE_COLUMN)
        vehicleStatus == getStatusLabel(cv, VEHICLE_STATUS_COLUMN)
        targetDate == DcaTargetDate(sourceDate, vehicleStatus)
        currentTargetDate == getColumnValue(cv, TARGET_DATE_COLUMN)
    IN  IF ~Truthy(sourceDate)
        THEN [resp |-> Resp(200, "No date to copy"), mut |-> {}]
        ELSE IF DcaGuardSkip(currentTargetDate, targetDate)
        THEN [resp |-> Resp(200, "No update needed - date already correct"), mut |-> {}]
        ELSE [resp |-> NoResp, mut |-> {<<TARGET_DATE_COLUMN, DateW(targetDate)>>}]

\* a slip: a flag kept in module scope short-cuts the runs that follow a
\* completed one
Decide_Cached(h, cv) ==
    IF settled THEN [resp |-> Resp(200, "Already fully processed"), mut |-> {}]
    ELSE IF h = "dca" THEN DcaDecide(cv) ELSE CtlDecide(cv)

\* the handler the function URL belongs to
Decide(h, cv) == IF h = "dca" THEN DcaDecide(cv) ELSE CtlDecide(cv)

-----------------------------------------------------------------------------
(* State *)

Slots == {1, 2}

BlankItem == [link |-> [url |-> Empty, text |-> Empty],
              portal |-> [url |-> Empty, text |-> Empty],
              text7 |-> Empty, src |-> Empty, tgt |-> Empty, status |-> Empty]

\* what an invocation keeps of the one that returned while it was in flight
\* (got "none": there was none); clean: nothing was edited between the two
\* fetches; wok: the outcome of the mutation, "none" when none was sent
NoPeer == [got |-> "none", clean |-> FALSE, req |-> NoReq,
           fetched |-> ColumnValues(BlankItem), mut |-> {}, wok |-> "none",
           resp |-> NoResp]

\* an invocation: pc is "idle", "fetch" (awaiting fetchItemDetails) or "write"
\* (awaiting the mutation); dclean: nothing was edited between the queueing of
\* its delivery and its fetch; fclean: nothing was edited since its fetch
IdleSlot == [pc |-> "idle", req |-> NoReq, cause |-> "none", dclean |-> FALSE,
             fclean |-> FALSE, fetched |-> ColumnValues(BlankItem), mut |-> {},
             peer |-> NoPeer]

\* a returned invocation: got is "none" (no fetch made), "error" (the fetch
\* threw), "noitem" or "item"; resp: the response
NoLast == [req |-> NoReq, cause |-> "none", dclean |-> FALSE, fclean |-> FALSE,
           got |-> "none", fetched |-> ColumnValues(BlankItem), mut |-> {},
           wok |-> "none", resp |-> NoResp, peer |-> NoPeer]

NoInput == [ymd |-> <<0, 0, 0>>, d |-> Empty, label |-> Empty]
NoOutput == [done |-> FALSE, dca |-> Empty, bulk |-> Empty, back |-> Empty,
             echo |-> [resp |-> NoResp, mut |-> {}]]

\* a remote call: a query for an item, or a mutation of columns of an item
NoOp == [kind |-> "none", item |-> "", cols |-> {}]

\* no invocation of the call-by-call model
NoRun == [h |-> "none", req |-> NoReq, token |-> TRUE, linked |-> 0,
          pc |-> "idle", phase |-> "none", op |-> NoOp, attempt |-> 0,
          todo |-> 0, trace |-> <<>>, resp |-> NoResp, error |-> Empty]

Free(s) == inv[s].pc = "idle"
NoneInFlight == \A s \in Slots : Free(s)
\* slots are interchangeable: an invocation takes the lowest free one
Lowest(s) == Free(s) /\ \A t \in Slots : t < s => ~Free(t)

\* what the external actor can put into the columns
HIREHOP == <<"https://myhirehop.com/job.php">>
Url13 == HIREHOP \o <<"?", "i", "d", "=", "1", "3">>
Url7 == HIREHOP \o <<"?", "x", "=", "1", "&", "i", "d", "=", "7">>
UrlNoId == HIREHOP \o <<"?", "o", "t", "h", "e", "r", "=", "1">>
Job13 == <<"1", "3">>
Job7 == <<"7">>

LinkEdits == {[url |-> Empty, text |-> Empty],
              [url |-> Url13, text |-> Empty],
              [url |-> Url13, text |-> Job13],
              [url |-> Url7, text |-> Job13],
              [url |-> UrlNoId, text |-> Empty]}

Date240301 == <<"2", "0", "2", "4", "-", "0", "3", "-", "0", "1">>
Date250101 == <<"2", "0", "2", "5", "-", "0", "1", "-", "0", "1">>
DateEdits == {Date240301, Date250101}
HIRE_LABEL == <<"H", "i", "r", "e">>
StatusEdits == {REHEARSAL_LABEL, HIRE_LABEL}

Init ==
    /\ handler \in {"dca", "ctl"}
    /\ item = BlankItem
    /\ queue = <<>>
    /\ inv = [s \in Slots |-> IdleSlot]
    /\ last = NoLast
    /\ nEdits = 0
    /\ sinceEdit = 0
    /\ settled = FALSE
    /\ nOdd = 0
    /\ fin = NoInput
    /\ fout = NoOutput
    /\ run = NoRun

-----------------------------------------------------------------------------
(* Actions *)

\* the handler is invoked with request r and runs to its first await, or returns
Begin(s, r, cause, dclean) ==
    LET early == PreFetch(handler, r)
    IN  IF early = NoResp
        THEN /\ inv' = [inv EXCEPT ![s] = [IdleSlot EXCEPT !.pc = "fetch", !.req = r,
                                             !.cause = cause, !.dclean = dclean]]
             /\ UNCHANGED last
        ELSE /\ last' = [NoLast EXCEPT !.req = r, !.cause = cause, !.resp = early]
             /\ UNCHANGED inv

\* Monday.com delivers the oldest pending webhook
Deliver(s) ==
    /\ Lowest(s)
    /\ queue # <<>>
    /\ Begin(s, Delivery(Head(queue).col), Head(queue).cause, Head(queue).clean)
    /\ queue' = Tail(queue)
    /\ UNCHANGED <<handler, item, nEdits, sinceEdit, settled, nOdd, fin, fout, run>>

\* some other request reaches the function URL
Receive(s, r) ==
    /\ Lowest(s)
    /\ nOdd < MaxOdd
    /\ Begin(s, r, "odd", FALSE)
    /\ nOdd' = nOdd + 1
    /\ UNCHANGED <<handler, item, queue, nEdits, sinceEdit, settled, fin, fout, run>>

\* the record of invocation s as it returns
Returned(s, got, fclean, cv, mut, wok, resp) ==
    [req |-> inv[s].req, cause |-> inv[s].cause, dclean |-> inv[s].dclean,
     fclean |-> fclean, got |-> got, fetched |-> cv, mut |-> mut, wok |-> wok,
     resp |-> resp, peer |-> inv[s].peer]

\* invocation s returns with record r: the other invocations in flight note it
Return(s, r) ==
    /\ last' = r
    /\ inv' = [t \in Slots |->
                 IF t = s \/ inv[t].pc = "idle" THEN IdleSlot
                 ELSE [inv[t] EXCEPT !.peer =
                         [got |-> r.got,
                          clean |-> r.fclean /\ (inv[t].pc = "fetch" \/ inv[t].fclean),
                          req |-> r.req, fetched |-> r.fetched, mut |-> r.mut,
                          wok |-> r.wok, resp |-> r.resp]]]

\* fetchItemDetails returns or throws, and the handler runs to its next await
Fetch(s, ok) ==
    /\ inv[s].pc = "fetch"
    /\ LET cv == ColumnValues(item)
           d == Decide(handler, cv)
       IN  IF ~ok
           THEN /\ Return(s, Returned(s, "error", FALSE, IdleSlot.fetched, {}, "none",
                                      Resp(500, "error")))
                /\ UNCHANGED settled
           ELSE IF inv[s].req.itemId # ITEM
           THEN /\ Return(s, Returned(s, "noitem", FALSE, IdleSlot.fetched, {}, "none",
                                      Resp(500, "Failed to fetch item details")))
                /\ UNCHANGED settled
           ELSE IF d.resp = NoResp
           THEN /\ inv' = [inv EXCEPT ![s].pc = "write", ![s].fetched = cv,
                                      ![s].fclean = TRUE, ![s].mut = d.mut]
                /\ UNCHANGED <<last, settled>>
           ELSE /\ Return(s, Returned(s, "item", TRUE, cv, {}, "none", d.resp))
                /\ settled' = TRUE
    /\ UNCHANGED <<handler, item, queue, nEdits, sinceEdit, nOdd, fin, fout, run>>

\* the deliveries a mutation causes: one per column of it that a webhook watches
Caused(mut) ==
    IF \E p \in mut : p[1] \in MONITORED_COLUMNS(handler)
    THEN <<[col |-> (CHOOSE p \in mut : p[1] \in MONITORED_COLUMNS(handler))[1],
            cause |-> "self", clean |-> TRUE]>>
    ELSE <<>>

\* the mutation returns or throws, and the handler returns its response
Write(s, ok) ==
    /\ inv[s].pc = "write"
    /\ IF ok
       THEN /\ item' = ApplyMutation(item, inv[s].mut)
            /\ queue' = queue \o Caused(inv[s].mut)
            /\ sinceEdit' = IF sinceEdit < 2 THEN sinceEdit + 1 ELSE sinceEdit
            /\ settled' = inv[s].fclean
            /\ Return(s, Returned(s, "item", inv[s].fclean, inv[s].fetched,
                                  inv[s].mut, "ok", Resp(200, "success")))
       ELSE /\ Return(s, Returned(s, "item", inv[s].fclean, inv[s].fetched,
                                  inv[s].mut, "fail", Resp(500, "error")))
            /\ UNCHANGED <<item, queue, sinceEdit, settled>>
    /\ UNCHANGED <<handler, nEdits, nOdd, fin, fout, run>>

\* the external actor edits a column of the item; Monday.com queues a delivery
\* when a webhook watches that column
Edit(col, it) ==
    /\ nEdits < MaxEdits
    /\ Len(queue) < MaxQueue
    /\ it # item
    /\ item' = it
    /\ LET q == [i \in 1..Len(queue) |-> [queue[i] EXCEPT !.clean = FALSE]]
       IN  queue' = IF col \in MONITORED_COLUMNS(handler)
                    THEN Append(q, [col |-> col, cause |-> "ext", clean |-> TRUE])
                    ELSE q
    /\ inv' = [s \in Slots |->
                 IF inv[s].pc = "idle" THEN inv[s]
                 ELSE [inv[s] EXCEPT !.dclean = (inv[s].pc = "write" /\ @),
                                     !.fclean = FALSE,
                                     !.peer.clean = (inv[s].pc = "write" /\ @)]]
    /\ nEdits' = nEdits + 1
    /\ sinceEdit' = 0
    /\ settled' = FALSE
    /\ UNCHANGED <<handler, last, nOdd, fin, fout, run>>

EditLink ==
    /\ handler = "ctl"
    /\ \E v \in LinkEdits : Edit(SOURCE_LINK_COLUMN, [item EXCEPT !.link = v])

EditDate ==
    /\ handler = "dca"
    /\ \E v \in DateEdits : Edit(SOURCE_DATE_COLUMN, [item EXCEPT !.src = v])

EditStatus ==
    /\ handler = "dca"
    /\ \E v \in StatusEdits : Edit(VEHICLE_STATUS_COLUMN, [item EXCEPT !.status = v])

\* webhook deliveries and external edits, invocations running concurrently
Next ==
    \/ \E s \in Slots : Deliver(s)
    \/ \E s \in Slots : \E ok \in BOOLEAN : Fetch(s, ok)
    \/ \E s \in Slots : \E ok \in BOOLEAN : Write(s, ok)
    \/ EditLink
    \/ EditDate
    \/ EditStatus

Spec == Init /\ [][Next]_vars

\* the same, deliveries processed one at a time
DeliverSeq(s) == NoneInFlight /\ Deliver(s)

NextSeq ==
    \/ \E s \in Slots : DeliverSeq(s)
    \/ \E s \in Slots : \E ok \in BOOLEAN : Fetch(s, ok)
    \/ \E s \in Slots : \E ok \in BOOLEAN : Write(s, ok)
    \/ EditLink
    \/ EditDate
    \/ EditStatus

\* Monday.com makes every queued delivery, and the platform runs an invoked
\* function until it returns: each remote call returns or throws
SeqSpec ==
    /\ Init
    /\ [][NextSeq]_vars
    /\ WF_vars(\E s \in Slots : DeliverSeq(s))
    /\ WF_vars(\E s \in Slots : \E ok \in BOOLEAN : Fetch(s, ok))
    /\ WF_vars(\E s \in Slots : \E ok \in BOOLEAN : Write(s, ok))

-----------------------------------------------------------------------------
(* Any request against an item at rest *)

\* the items the requests find: nothing set, a source not yet processed, a
\* source already processed
DispatchItems(h) ==
    IF h = "dca"
    THEN {BlankItem,
          [BlankItem EXCEPT !.src = Date240301],
          [BlankItem EXCEPT !.src = Date240301, !.status = REHEARSAL_LABEL,
                            !.tgt = Date240301]}
    ELSE {BlankItem,
          [BlankItem EXCEPT !.link = [url |-> Url13, text |-> Empty]],
          [BlankItem EXCEPT !.link = [url |-> Url13, text |-> Job13],
                            !.text7 = Job13]}

InitDispatch ==
    /\ handler \in {"dca", "ctl"}
    /\ item \in DispatchItems(handler)
    /\ queue = <<>>
    /\ inv = [s \in Slots |-> IdleSlot]
    /\ last = NoLast
    /\ nEdits = 0
    /\ sinceEdit = 0
    /\ settled = FALSE
    /\ nOdd = 0
    /\ fin = NoInput
    /\ fout = NoOutput
    /\ run = NoRun

NextDispatch ==
    \/ \E s \in Slots : \E r \in AllRequests(handler) : Receive(s, r)
    \/ \E s \in Slots : Deliver(s)
    \/ \E s \in Slots : \E ok \in BOOLEAN : Fetch(s, ok)
    \/ \E s \in Slots : \E ok \in BOOLEAN : Write(s, ok)

DispatchSpec == InitDispatch /\ [][NextDispatch]_vars

-----------------------------------------------------------------------------
(* The date derivations on their own *)

Years == (FirstYear..(FirstYear + NumYears - 1)) \cup {1900, 2000, 2100}

\* the Gregorian calendar, stated without the Date object
IsLeapYear(y) == (y % 4 = 0 /\ y % 100 # 0) \/ y % 400 = 0

DaysInMonth(y, m) ==
    IF m = 2 THEN (IF IsLeapYear(y) THEN 29 ELSE 28)
    ELSE IF m \in {4, 6, 9, 11} THEN 30
    ELSE 31

ValidDates == {ymd \in Years \X (1..12) \X (1..31) : ymd[3] <= DaysInMonth(ymd[1], ymd[2])}

PrevDay(ymd) ==
    IF ymd[3] > 1 THEN <<ymd[1], ymd[2], ymd[3] - 1>>
    ELSE IF ymd[2] > 1 THEN <<ymd[1], ymd[2] - 1, DaysInMonth(ymd[1], ymd[2] - 1)>>
    ELSE <<ymd[1] - 1, 12, 31>>

NextDay(ymd) ==
    IF ymd[3] < DaysInMonth(ymd[1], ymd[2]) THEN <<ymd[1], ymd[2], ymd[3] + 1>>
    ELSE IF ymd[2] < 12 THEN <<ymd[1], ymd[2] + 1, 1>>
    ELSE <<ymd[1] + 1, 1, 1>>

\* YYYY-MM-DD
Two(n) == <<Digits[(n \div 10) + 1], Digits[(n % 10) + 1]>>
IsoDate(ymd) ==
    Two(ymd[1] \div 100) \o Two(ymd[1] % 100) \o <<"-">> \o Two(ymd[2])
        \o <<"-">> \o Two(ymd[3])

lowercase_label == <<"r", "e", "h", "e", "a", "r", "s", "a", "l">>
StatusLabels == {Null, REHEARSAL_LABEL, HIRE_LABEL, lowercase_label}

InitDate ==
    /\ handler = "none"
    /\ item = BlankItem
    /\ queue = <<>>
    /\ inv = [s \in Slots |-> IdleSlot]
    /\ last = NoLast
    /\ nEdits = 0
    /\ sinceEdit = 0
    /\ settled = FALSE
    /\ nOdd = 0
    /\ fin \in {[ymd |-> ymd, d |-> IsoDate(ymd), label |-> l] :
                   ymd \in ValidDates, l \in StatusLabels}
    /\ fout = NoOutput
    /\ run = NoRun

\* the item as the migration leaves it: dup__of_hire_starts holds d,
\* date_mkzzmse7 the migrated value, status8 the label
Migrated(d, label) ==
    [BlankItem EXCEPT !.src = BulkTargetDate(d, label), !.tgt = d,
                      !.status = IF label = Null THEN Empty ELSE label]

\* both derivations applied to the same source date and status label, the
\* date-copy derivation applied to the migration's value, and what
\* date-copy-automation decides for the migrated item
Derive ==
    /\ ~fout.done
    /\ fout' = [done |-> TRUE,
                dca |-> DcaTargetDate(fin.d, fin.label),
                bulk |-> BulkTargetDate(fin.d, fin.label),
                back |-> DcaTargetDate(BulkTargetDate(fin.d, fin.label), fin.label),
                echo |-> DcaDecide(ColumnValues(Migrated(fin.d, fin.label)))]
    /\ UNCHANGED <<handler, item, queue, inv, last, nEdits, sinceEdit, settled, nOdd, fin, run>>

DateSpec == InitDate /\ [][Derive]_vars

-----------------------------------------------------------------------------
(* The pure helpers on their own: an input is drawn, the helper is applied  *)

\* nothing else of the system moves while a helper is looked at
Quiet ==
    /\ handler = "none"
    /\ item = BlankItem
    /\ queue = <<>>
    /\ inv = [s \in Slots |-> IdleSlot]
    /\ last = NoLast
    /\ nEdits = 0
    /\ sinceEdit = 0
    /\ settled = FALSE
    /\ nOdd = 0
    /\ run = NoRun

\* the concatenations of up to n elements of parts
RECURSIVE Concats(_, _)
Concats(parts, n) ==
    IF n = 0 THEN {<<>>}
    ELSE LET shorter == Concats(parts, n - 1)
         IN  shorter \cup {p \o u : p \in parts, u \in shorter}

\* the pieces link URLs are put together from
UrlParts == {<<"?">>, <<"&">>, <<"i", "d", "=">>, <<"7">>, <<"1", "3">>,
             <<"o", "=", "1">>, <<"/">>}
MaxParts == 5
Urls == Concats(UrlParts, MaxParts) \cup {Null}

InitJobId ==
    /\ Quiet
    /\ fin \in {[url |-> u] : u \in Urls}
    /\ fout = [done |-> FALSE, jobId |-> Empty]

\* const jobId = extractJobId(hirehopUrl)
ExtractJobId ==
    /\ ~fout.done
    /\ fout' = [done |-> TRUE,
                jobId |-> extractJobId(IF fin.url = Empty THEN Null ELSE fin.url)]
    /\ UNCHANGED <<handler, item, queue, inv, last, nEdits, sinceEdit, settled, nOdd, fin, run>>

JobIdSpec == InitJobId /\ [][ExtractJobId]_vars

-----------------------------------------------------------------------------
(* Remote calls: callMondayAPI, callMondayAPIWithRetry, and the handlers     *)
(* followed call by call.  Error messages are strings, character by          *)
(* character, so that the retry rule's substring test is computed.           *)

MaxLinked == 2

UpperCase ==
    <<"A", "B", "C", "D", "E", "F", "G", "H", "I", "J", "K", "L", "M",
      "N", "O", "P", "Q", "R", "S", "T", "U", "V", "W", "X", "Y", "Z">>
LowerCase ==
    <<"a", "b", "c", "d", "e", "f", "g", "h", "i", "j", "k", "l", "m",
      "n", "o", "p", "q", "r", "s", "t", "u", "v", "w", "x", "y", "z">>

\* String.prototype.toLowerCase
toLowerCase(s) ==
    [i \in 1..Len(s) |->
        IF \E k \in 1..26 : UpperCase[k] = s[i]
        THEN LowerCase[CHOOSE k \in 1..26 : UpperCase[k] = s[i]]
        ELSE s[i]]

\* String.prototype.includes
includes(s, sub) ==
    \E i \in 0..(Len(s) - Len(sub)) :
        \A j \in 1..Len(sub) : s[i + j] = sub[j]

\* RETRY_CONFIG
maxAttempts == 3
baseDelayMs == 1000
retryableErrors ==
    {<<"E", "T", "I", "M", "E", "D", "O", "U", "T">>,
     <<"E", "C", "O", "N", "N", "R", "E", "S", "E", "T">>,
     <<"r", "a", "t", "e", " ", "l", "i", "m", "i", "t">>,
     <<"t", "i", "m", "e", "o", "u", "t">>,
     <<"4", "2", "9">>,
     <<"5", "0", "0">>,
     <<"5", "0", "2">>,
     <<"5", "0", "3">>,
     <<"5", "0", "4">>}

\* messages of the errors the handlers meet
GRAPHQL_PREFIX ==
    <<"G", "r", "a", "p", "h", "Q", "L", " ", "e", "r", "r", "o", "r", ":",
      " ">>
RATE_LIMIT_MESSAGE ==
    <<"R", "a", "t", "e", " ", "L", "i", "m", "i", "t", " ", "E", "x", "c",
      "e", "e", "d", "e", "d">>
NOT_FOUND_MESSAGE ==
    <<"I", "t", "e", "m", " ", "n", "o", "t", " ", "f", "o", "u", "n", "d">>
FETCH_FAILED ==
    <<"f", "e", "t", "c", "h", " ", "f", "a", "i", "l", "e", "d">>
CONNECT_TIMED_OUT ==
    <<"c", "o", "n", "n", "e", "c", "t", " ", "E", "T", "I", "M", "E", "D",
      "O", "U", "T">>
JSON_SYNTAX_ERROR ==
    <<"U", "n", "e", "x", "p", "e", "c", "t", "e", "d", " ", "t", "o", "k",
      "e", "n", " ", "<">>
TOKEN_NOT_CONFIGURED ==
    <<"M", "O", "N", "D", "A", "Y", "_", "A", "P", "I", "_", "T", "O", "K",
      "E", "N", " ", "n", "o", "t", " ", "c", "o", "n", "f", "i", "g", "u",
      "r", "e", "d">>
FAILED_ITEM ==
    <<"F", "a", "i", "l", "e", "d", " ", "t", "o", " ", "f", "e", "t", "c",
      "h", " ", "i", "t", "e", "m", " ", "d", "e", "t", "a", "i", "l", "s">>
FAILED_FREELANCER ==
    <<"F", "a", "i", "l", "e", "d", " ", "t", "o", " ", "f", "e", "t", "c",
      "h", " ", "f", "r", "e", "e", "l", "a", "n", "c", "e", "r", " ", "d",
      "e", "t", "a", "i", "l", "s">>

\* the retry rule: some entry of retryableErrors occurs in the message,
\* whatever the case of either
isRetryable(msg) ==
    \E errType \in retryableErrors :
        includes(toLowerCase(msg), toLowerCase(errType))

\* a slip: every wait is the base delay
Backoff_Constant(attempt) == baseDelayMs

\* baseDelayMs * Math.pow(2, attempt - 2): the wait before the given attempt
Backoff(attempt) == baseDelayMs * 2^(attempt - 2)

\* the handlers whose remote calls go through callMondayAPIWithRetry
HasRetry(h) == h \in {"ctl", "cec"}

\* what a successful query hands the handler: whether the item exists, and of
\* the item what the handler's path depends on
NoData == [found |-> FALSE, it |-> BlankItem, confirmed |-> FALSE,
           vehicle |-> FALSE, nLinked |-> 0]
Found == [NoData EXCEPT !.found = TRUE]
FetchData(h) ==
    {NoData} \cup
    CASE h \in {"dca", "ctl"} -> {[Found EXCEPT !.it = it] : it \in DispatchItems(h)}
      [] h = "qca" -> {[Found EXCEPT !.confirmed = c, !.vehicle = v] :
                          c \in BOOLEAN, v \in BOOLEAN}
      [] h = "abu" -> {[Found EXCEPT !.nLinked = n] : n \in 0..MaxLinked}
      [] OTHER -> {Found}

\* the remote's answers to one HTTP request.  kind "json": a body that parses,
\* with its first errors[].message (Null when it has no errors) and its data;
\* kind "notjson": a body response.json() rejects; kind "reject": fetch itself
\* rejects with msg.  http is the status of the response
NoAnswer == [kind |-> "json", http |-> 200, msg |-> Null, data |-> NoData]
RemoteErrors == {RATE_LIMIT_MESSAGE, NOT_FOUND_MESSAGE}
Rejections == {FETCH_FAILED, CONNECT_TIMED_OUT}
Answers(h, kind) ==
    {[NoAnswer EXCEPT !.data = d] :
        d \in IF kind = "query" THEN FetchData(h) ELSE {Found}}
    \cup {[NoAnswer EXCEPT !.msg = m] : m \in RemoteErrors}
    \cup {[NoAnswer EXCEPT !.http = 503]}
    \cup {[NoAnswer EXCEPT !.kind = "notjson", !.http = 502]}
    \cup {[NoAnswer EXCEPT !.kind = "reject", !.http = 0, !.msg = m] :
             m \in Rejections}

\* callMondayAPI from the answer on: it throws what fetch or response.json()
\* throw, throws the first of result.errors, and returns the body otherwise.
\* The status of the response is not looked at
callMondayAPI(ans) ==
    CASE ans.kind = "reject" -> [threw |-> TRUE, msg |-> ans.msg, data |-> NoData]
      [] ans.kind = "notjson" ->
            [threw |-> TRUE, msg |-> JSON_SYNTAX_ERROR, data |-> NoData]
      [] OTHER ->
            IF ans.msg # Null
            THEN [threw |-> TRUE, msg |-> GRAPHQL_PREFIX \o ans.msg, data |-> NoData]
            ELSE [threw |-> FALSE, msg |-> Empty, data |-> ans.data]

\* the items the handlers touch besides the event's
FREELANCER == "2002"
LinkedItem(k) == IF k = 1 THEN "3001" ELSE IF k = 2 THEN "3002" ELSE "3003"

Query(itemId) == [kind |-> "query", item |-> itemId, cols |-> {}]
Mutation(itemId, cols) == [kind |-> "mutation", item |-> itemId, cols |-> cols]

\* an entry of the trace: a request sent ("call"), its outcome in
\* callMondayAPI ("ok", "fail": why is the answer's kind, or "config" when the
\* token is missing and nothing was sent; found: the body returned holds an
\* item), a wait of the retry loop ("sleep")
NoEv == [ev |-> "none", op |-> NoOp, attempt |-> 0, http |-> 0, why |-> "",
         found |-> FALSE, msg |-> Empty, delay |-> 0]

\* return {statusCode, body}
Finish(r, resp, err) == [r EXCEPT !.pc = "done", !.resp = resp, !.error = err]

\* a slip: every handler treats a failed update the way
\* quote-confirmed-automation treats its status8 update
OnThrow_Swallow(r, msg) ==
    IF r.phase = "write"
    THEN Finish(r, Resp(200, "success"), Empty)
    ELSE Finish(r, CatchResp, msg)

\* an error thrown by a remote call reaches the handler: the catch block,
\* except that quote-confirmed-automation swallows a failed status8 update
OnThrow(r, msg) ==
    IF r.h = "qca" /\ r.phase = "write"
    THEN Finish(r, Resp(200, "success"), Empty)
    ELSE Finish(r, CatchResp, msg)

\* fetch(MONDAY_API_URL, ...) sent, the invocation awaits the answer
Send(r, attempt) ==
    [r EXCEPT !.pc = "await", !.attempt = attempt,
              !.trace = Append(@, [NoEv EXCEPT !.ev = "call", !.op = r.op,
                                               !.attempt = attempt])]

\* the handler makes the remote call op: callMondayAPI throws before sending
\* anything when MONDAY_API_TOKEN is not set
Issue(r, phase, op) ==
    LET r1 == [r EXCEPT !.phase = phase, !.op = op, !.attempt = 1]
    IN  IF r.token THEN Send(r1, 1)
        ELSE OnThrow([r1 EXCEPT !.trace = Append(@,
                         [NoEv EXCEPT !.ev = "fail", !.op = op, !.attempt = 1,
                                      !.why = "config",
                                      !.msg = TOKEN_NOT_CONFIGURED])],
                     TOKEN_NOT_CONFIGURED)

\* a slip: crew-email-copy writes the address to the freelancer's item
updateTextColumn_Freelancer(itemId, columnId) == Mutation(FREELANCER, {columnId})

\* crew-email-copy updateTextColumn
updateTextColumn(itemId, columnId) == Mutation(itemId, {columnId})

\* the handler from the end of its filters to its first remote call
AfterPrelude(r) ==
    IF r.h = "cec"
    THEN IF r.linked = 0
         THEN Issue(r, "clear", updateTextColumn(r.req.itemId, CEC_TARGET_TEXT_COLUMN))
         ELSE Issue(r, "fetch", Query(FREELANCER))
    ELSE Issue(r, "fetch", Query(r.req.itemId))

\* the columns of a mutation the item-level model decided
ColumnsOf(mut) == {p[1] : p \in mut}

\* address-book-updates: the next linked Quotes & Hires item to sync, if any
\* (for ... of linkedQHIds: r.linked items, r.todo of them still to do)
SyncNext(r, col) ==
    IF r.todo > 0
    THEN Issue([r EXCEPT !.todo = @ - 1], "sync",
               Mutation(LinkedItem(r.linked - r.todo + 1), {col}))
    ELSE Finish(r, Resp(200, "success"), Empty)

\* the handler from the return of a remote call to its next one
OnReturn(r, data) ==
    LET h == r.h
        itemId == r.req.itemId
        success == Finish(r, Resp(200, "success"), Empty)
    IN  CASE r.phase = "fetch" /\ ~data.found ->
                Finish(r, Resp(500, "error"),
                       IF h = "cec" THEN FAILED_FREELANCER ELSE FAILED_ITEM)
          [] r.phase = "fetch" /\ data.found ->
               (CASE h \in {"dca", "ctl"} ->
                        LET d == Decide(h, ColumnValues(data.it))
                        IN  IF d.resp # NoResp THEN Finish(r, d.resp, Empty)
                            ELSE Issue(r, "write", Mutation(itemId, ColumnsOf(d.mut)))
                  [] h = "cec" ->
                        Issue(r, "write", updateTextColumn(itemId, CEC_TARGET_TEXT_COLUMN))
                  [] h = "qhl" ->
                        Issue(r, "write",
                              Mutation(itemId, {COLUMNS_clientEmail, COLUMNS_clientName}))
                  [] h = "qca" ->
                        IF ~data.confirmed
                        THEN Finish(r, Resp(200, "Status not confirmed quote"), Empty)
                        ELSE IF data.vehicle
                        THEN Issue(r, "write", Mutation(itemId, {COLUMNS_vehicleStatus}))
                        ELSE success
                  [] h = "abc" ->
                        Issue(r, "write",
                              Mutation(itemId, {COLUMNS_itemIdCopy, COLUMNS_fullName,
                                                COLUMNS_firstName}))
                  [] OTHER ->
                       (CASE r.req.columnId \in {"name", Undefined} ->
                                Issue([r EXCEPT !.todo = data.nLinked, !.linked = data.nLinked],
                                      "write",
                                      Mutation(itemId, {COLUMNS_fullName,
                                                        COLUMNS_firstName}))
                          [] r.req.columnId = AB_COLUMNS_email ->
                                SyncNext([r EXCEPT !.todo = data.nLinked,
                                                   !.linked = data.nLinked],
                                         COLUMNS_clientEmail)
                          [] OTHER ->
                                Issue(r, "write",
                                      Mutation(itemId, {AB_COLUMNS_lastContactDate}))))
          [] r.phase = "clear" ->
                Finish(r, Resp(200, "Connection removed - email field cleared"), Empty)
          [] r.phase = "sync" ->
                SyncNext(r, CHOOSE c \in r.op.cols : TRUE)
          [] OTHER ->
                IF h = "abu" THEN SyncNext(r, COLUMNS_clientName) ELSE success

RunRequests(h) == {r \in AllRequests(h) : r.itemId = ITEM}

InitRun ==
    /\ handler = "none"
    /\ item = BlankItem
    /\ queue = <<>>
    /\ inv = [s \in Slots |-> IdleSlot]
    /\ last = NoLast
    /\ nEdits = 0
    /\ sinceEdit = 0
    /\ settled = FALSE
    /\ nOdd = 0
    /\ fin = NoInput
    /\ fout = NoOutput
    /\ run \in {[NoRun EXCEPT !.h = h, !.req = r, !.token = t, !.linked = n,
                              !.pc = "start"] :
                   h \in Handlers, r \in UNION {RunRequests(g) : g \in Handlers},
                   t \in BOOLEAN, n \in 0..1}
    /\ run.req \in RunRequests(run.h)
    /\ run.linked = 1 => run.h = "cec"

\* the invocation starts and runs to its first await or to its return
Start ==
    /\ run.pc = "start"
    /\ LET early == PreFetch(run.h, run.req)
       IN  run' = IF early = NoResp THEN AfterPrelude(run)
                  ELSE Finish(run, early,
                              IF early = CatchResp THEN JSON_SYNTAX_ERROR ELSE Empty)
    /\ UNCHANGED <<handler, item, queue, inv, last, nEdits, sinceEdit, settled,
                   nOdd, fin, fout>>

\* the remote answers the request in flight; the invocation runs on to its
\* next await or to its return.  callMondayAPIWithRetry goes round its loop
\* when the error is retryable and attempts are left
Answer(ans) ==
    /\ run.pc = "await"
    /\ ans \in Answers(run.h, run.op.kind)
    /\ LET out == callMondayAPI(ans)
           r1 == [run EXCEPT !.trace = Append(@,
                     [NoEv EXCEPT !.ev = IF out.threw THEN "fail" ELSE "ok",
                                  !.op = run.op, !.attempt = run.attempt,
                                  !.http = ans.http, !.why = ans.kind,
                                  !.found = out.data.found, !.msg = out.msg])]
       IN  run' = IF ~out.threw THEN OnReturn(r1, out.data)
                  ELSE IF HasRetry(run.h) /\ isRetryable(out.msg)
                          /\ run.attempt < maxAttempts
                  THEN [r1 EXCEPT !.pc = "sleep"]
                  ELSE OnThrow(r1, out.msg)
    /\ UNCHANGED <<handler, item, queue, inv, last, nEdits, sinceEdit, settled,
                   nOdd, fin, fout>>

\* sleep(delay) of the retry loop ends and the next attempt is sent
Wake ==
    /\ run.pc = "sleep"
    /\ run' = Send([run EXCEPT !.trace = Append(@,
                       [NoEv EXCEPT !.ev = "sleep",
                                    !.delay = Backoff(run.attempt + 1)])],
                   run.attempt + 1)
    /\ UNCHANGED <<handler, item, queue, inv, last, nEdits, sinceEdit, settled,
                   nOdd, fin, fout>>

NextRun ==
    \/ Start
    \/ \E ans \in UNION {Answers(h, k) : h \in Handlers, k \in {"query", "mutation"}} :
          Answer(ans)
    \/ Wake

\* the platform runs the function and its timers; nothing obliges the remote
\* to answer
RunSpec == InitRun /\ [][NextRun]_vars /\ WF_vars(Start) /\ WF_vars(Wake)

-----------------------------------------------------------------------------
(* First names: extractFirstName of the two address-book handlers            *)

\* the characters \s matches and trim() removes, of those that occur
WhiteSpace == {" ", "\t"}
\* the class [-–—|/]; the two long dashes are written by name
Separators == {"-", "ndash", "mdash", "|", "/"}

\* String.prototype.trim
RECURSIVE trim(_)
trim(s) ==
    IF s = <<>> THEN s
    ELSE IF s[1] \in WhiteSpace THEN trim(Tail(s))
    ELSE IF s[Len(s)] \in WhiteSpace THEN trim(SubSeq(s, 1, Len(s) - 1))
    ELSE s

\* fullName.split(/\s*[-–—|/]\s*/)[0]: what stands before the leftmost
\* match, which starts at the white space in front of the first separator
SplitSeparators0(s) ==
    IF \E i \in 1..Len(s) : s[i] \in Separators
    THEN LET sep == CHOOSE i \in 1..Len(s) :
                       /\ s[i] \in Separators
                       /\ \A j \in 1..(i - 1) : s[j] \notin Separators
             start == CHOOSE i \in 1..sep :
                       /\ \A j \in i..(sep - 1) : s[j] \in WhiteSpace
                       /\ i > 1 => s[i - 1] \notin WhiteSpace
         IN  SubSeq(s, 1, start - 1)
    ELSE s

\* namePart.split(/\s+/).filter(w => w.length > 0)
RECURSIVE SplitWords(_)
SplitWords(s) ==
    IF s = <<>> THEN <<>>
    ELSE IF s[1] \in WhiteSpace THEN SplitWords(Tail(s))
    ELSE LET n == IF \E i \in 1..Len(s) : s[i] \in WhiteSpace
                  THEN (CHOOSE i \in 1..Len(s) :
                           /\ s[i] \in WhiteSpace
                           /\ \A j \in 1..(i - 1) : s[j] \notin WhiteSpace) - 1
                  ELSE Len(s)
         IN  <<SubSeq(s, 1, n)>> \o SplitWords(SubSeq(s, n + 1, Len(s)))

\* word.replace(/[.,]/g, '')
IsNotPunctuation(c) == c \notin {".", ","}
StripPunctuation(w) == SelectSeq(w, IsNotPunctuation)

\* NAME_PREFIXES of address-book-item-created
abc_NAME_PREFIXES ==
    {<<"m", "r">>, <<"m", "r", "s">>, <<"m", "s">>, <<"m", "i", "s", "s">>, <<"d", "r">>,
     <<"p", "r", "o", "f">>, <<"s", "i", "r">>, <<"l", "a", "d", "y">>, <<"r", "e", "v">>, <<"m", "x">>}

\* NAME_PREFIXES of address-book-updates
abu_NAME_PREFIXES ==
    {<<"m", "r">>, <<"m", "r", "s">>, <<"m", "s">>, <<"m", "i", "s", "s">>, <<"d", "r">>,
     <<"p", "r", "o", "f">>, <<"s", "i", "r">>, <<"l", "a", "d", "y">>, <<"r", "e", "v">>, <<"m", "x">>}

\* a slip: the first word is lower-cased but its punctuation is kept
abc_extractFirstName_KeepPunctuation(fullName) ==
    IF ~Truthy(fullName) THEN Empty
    ELSE LET namePart == trim(SplitSeparators0(fullName))
             words == SplitWords(namePart)
         IN  IF Len(words) = 0 THEN Empty
             ELSE LET firstWordLower == toLowerCase(words[1])
                  IN  IF firstWordLower \in abc_NAME_PREFIXES /\ Len(words) > 1
                      THEN words[2]
                      ELSE words[1]

\* address-book-item-created extractFirstName
abc_extractFirstName(fullName) ==
    IF ~Truthy(fullName) THEN Empty
    ELSE LET namePart == trim(SplitSeparators0(fullName))
             words == SplitWords(namePart)
         IN  IF Len(words) = 0 THEN Empty
             ELSE LET firstWordLower == StripPunctuation(toLowerCase(words[1]))
                  IN  IF firstWordLower \in abc_NAME_PREFIXES /\ Len(words) > 1
                      THEN words[2]
                      ELSE words[1]

\* address-book-updates extractFirstName
abu_extractFirstName(fullName) ==
    IF ~Truthy(fullName) THEN Empty
    ELSE LET namePart == trim(SplitSeparators0(fullName))
             words == SplitWords(namePart)
         IN  IF Len(words) = 0 THEN Empty
             ELSE LET firstWordLower == StripPunctuation(toLowerCase(words[1]))
                  IN  IF firstWordLower \in abu_NAME_PREFIXES /\ Len(words) > 1
                      THEN words[2]
                      ELSE words[1]

\* the pieces item names are put together from, with one of the separators
NameParts(sep) == {<<"M", "r", ".">>, <<"M", "R", "S", ",">>, <<"J", "o">>,
                   <<"W", "o", "o", "d">>, <<" ">>, <<sep>>}
MaxTokens == 4

\* the examples the source gives
NAME_WITH_COMPANY ==
    <<"M", "r", " ", "J", "o", "n", "a", "t", "h", "a", "n", " ", "W", "o",
      "o", "d", " ", "-", " ", "O", "o", "o", "s", "h", " ", "T", "o", "u",
      "r", "s">>
NAME_WITH_PREFIX ==
    <<"M", "r", "s", " ", "S", "a", "r", "a", "h", " ", "S", "m", "i", "t",
      "h">>
NAME_OF_COMPANY ==
    <<"A", "c", "m", "e", " ", "C", "o", "r", "p", " ", "L", "t", "d">>

Names == UNION {Concats(NameParts(sep), MaxTokens) : sep \in Separators}
           \cup {NAME_WITH_COMPANY, NAME_WITH_PREFIX, NAME_OF_COMPANY,
                 <<"\t", "D", "R", "\t", "J", "o">>, Null}

InitName ==
    /\ Quiet
    /\ fin \in {[name |-> n] : n \in Names}
    /\ fout = [done |-> FALSE, abc |-> Empty, abu |-> Empty]

\* const firstName = extractFirstName(itemName), in either handler; the item
\* name is itemData.name || ''
ExtractFirstName ==
    /\ ~fout.done
    /\ LET itemName == IF Truthy(fin.name) THEN fin.name ELSE Empty
       IN  fout' = [done |-> TRUE,
                    abc |-> abc_extractFirstName(itemName),
                    abu |-> abu_extractFirstName(itemName)]
    /\ UNCHANGED <<handler, item, queue, inv, last, nEdits, sinceEdit, settled, nOdd, fin, run>>

NameSpec == InitName /\ [][ExtractFirstName]_vars

-----------------------------------------------------------------------------
(* The field extractors on any column entry                                  *)

\* crew-email-copy getEmailValue
getEmailValue(columnValues, columnId) ==
    IF columnId \notin DOMAIN columnValues THEN Null
    ELSE LET column == columnValues[columnId]
         IN  IF column.value.kind = "obj" /\ Truthy(column.value.email)
             THEN column.value.email
             ELSE OrNull(column.text)

\* address-book-updates getLinkedItemIds: linkedPulseIds is absent from the
\* payload, something that is no array, or an array of {linkedPulseId}
getLinkedItemIds(columnValues, columnId) ==
    IF columnId \notin DOMAIN columnValues THEN <<>>
    ELSE LET column == columnValues[columnId]
         IN  IF column.value.kind = "null" THEN <<>>
             ELSE IF /\ column.value.kind = "obj"
                     /\ column.value.linkedPulseIds.is = "array"
             THEN [i \in 1..Len(column.value.linkedPulseIds.items) |->
                      column.value.linkedPulseIds.items[i].linkedPulseId]
             ELSE <<>>

\* the column asked for
THE_COLUMN == "status8"

SOME_TEXT == <<"H", "i", "r", "e">>
SOME_DATE == <<"2", "0", "2", "4", "-", "0", "3", "-", "0", "1">>
SOME_LABEL == <<"R", "e", "h", "e", "a", "r", "s", "a", "l">>
SOME_URL == <<"/", "?", "i", "d", "=", "1", "3">>
SOME_EMAIL == <<"a", "@", "b", ".", "c">>

\* linkedPulseIds of a payload
LinkedPulseIds ==
    {[is |-> "absent", items |-> <<>>], [is |-> "string", items |-> <<>>],
     [is |-> "array", items |-> <<>>],
     [is |-> "array", items |-> <<[linkedPulseId |-> "2002"]>>],
     [is |-> "array", items |-> <<[linkedPulseId |-> "2003"],
                                  [linkedPulseId |-> "2002"]>>]}

\* the raw payloads: null, a string that is not JSON, the JSON null, and
\* objects holding any of the fields
Payloads ==
    {[kind |-> k, url |-> Null, text |-> Null, date |-> Null, label |-> Null,
      index |-> FALSE, email |-> Null,
      linkedPulseIds |-> [is |-> "absent", items |-> <<>>]] :
        k \in {"null", "bad", "jsonnull"}}
    \cup
    {[kind |-> "obj", url |-> u, text |-> Null, date |-> d, label |-> l,
      index |-> i, email |-> e, linkedPulseIds |-> ids] :
        u \in {Null, SOME_URL}, d \in {Null, SOME_DATE}, l \in {Null, SOME_LABEL},
        i \in BOOLEAN, e \in {Null, SOME_EMAIL}, ids \in LinkedPulseIds}

InitExtract ==
    /\ Quiet
    /\ fin \in {[listed |-> b, text |-> t, value |-> v] :
                   b \in BOOLEAN, t \in {Null, Empty, SOME_TEXT}, v \in Payloads}
    /\ fout = [done |-> FALSE]

\* each extractor applied to a list of column entries in which the column
\* asked for is listed or not
Extract ==
    /\ ~fout.done
    /\ LET columnValues ==
               [c \in (IF fin.listed THEN {THE_COLUMN} ELSE {}) \cup {OTHER_COLUMN} |->
                   IF c = THE_COLUMN THEN [text |-> fin.text, value |-> fin.value]
                   ELSE [text |-> SOME_TEXT,
                         value |-> [fin.value EXCEPT !.kind = "obj"]]]
       IN  fout' = [done |-> TRUE,
                    date |-> getColumnValue(columnValues, THE_COLUMN),
                    label |-> getStatusLabel(columnValues, THE_COLUMN),
                    url |-> getLinkUrl(columnValues, THE_COLUMN),
                    email |-> getEmailValue(columnValues, THE_COLUMN),
                    linked |-> getLinkedItemIds(columnValues, THE_COLUMN)]
    /\ UNCHANGED <<handler, item, queue, inv, last, nEdits, sinceEdit, settled, nOdd, fin, run>>

ExtractSpec == InitExtract /\ [][Extract]_vars

-----------------------------------------------------------------------------
(* bulk-date-migration: one invocation, remote call by remote call.  The    *)
(* variable run holds it: the request, the board it reads, the items        *)
(* fetched, the analysis, the writes attempted and the response.            *)

B_SOURCE_DATE_COLUMN == "dup__of_hire_starts"
B_TARGET_DATE_COLUMN == "date_mkzzmse7"
BATCH_SIZE == 25
DELAY_BETWEEN_BATCHES == 2000
\* items_page(limit: 100)
PAGE_LIMIT == 100
\* analysis.updates.slice(0, 50)
PREVIEW_LIMIT == 50

\* the wall-clock budget of the hosting environment, in ms
TimeBudgetMs == 10000

Date240229 == <<"2", "0", "2", "4", "-", "0", "2", "-", "2", "9">>
Date240302 == <<"2", "0", "2", "4", "-", "0", "3", "-", "0", "2">>
\* a source value that is no date
INVALID_DATE == <<"t", "b", "c">>

\* the items boards are made of, by what the migration finds: dates are
\* held as date-copy-automation names them (tgt is dup__of_hire_starts, src
\* is date_mkzzmse7)
ItemKinds == {"empty", "hire", "rehearsal", "done", "stale", "invalid"}
ItemOfKind(k) ==
    CASE k = "empty" -> [BlankItem EXCEPT !.status = HIRE_LABEL]
      [] k = "hire" -> [BlankItem EXCEPT !.tgt = Date240229, !.status = HIRE_LABEL]
      [] k = "rehearsal" -> [BlankItem EXCEPT !.tgt = Date240301,
                                             !.status = REHEARSAL_LABEL]
      [] k = "done" -> [BlankItem EXCEPT !.tgt = Date240229, !.src = Date240301]
      [] k = "stale" -> [BlankItem EXCEPT !.tgt = Date240301, !.src = Date240301,
                                         !.status = HIRE_LABEL]
      [] k = "invalid" -> [BlankItem EXCEPT !.tgt = INVALID_DATE]

MaxItems == 2
BigBoardSize == 126

\* the items whose update Monday.com may reject: the first two of the
\* board, and the last of the first batch and the one after it
FailingItems == {1001, 1002, 1000 + BATCH_SIZE, 1001 + BATCH_SIZE}

\* a board: a few items of any kind, or many items that all need the update
SmallBoards == UNION {[1..n -> ItemKinds] : n \in 0..MaxItems}
BigBoard == [i \in 1..BigBoardSize |-> "hire"]
Boards == SmallBoards \cup {BigBoard}

\* items { id name column_values { id text value } } of the i-th item
BoardItem(board, i) ==
    [id |-> 1000 + i, column_values |-> ColumnValues(ItemOfKind(board[i]))]

\* a slip: any value of the parameter starts the migration
executeForReal_AnyValue(params) == params.execute # "absent"

\* params.execute === 'true'
executeForReal(params) == params.execute = "true"

\* the loop body of the analysis for one item: what it counts the item as,
\* and the update it queues.  No statement of the body throws: the
\* extractors catch, and addOneDay of a string that is no date returns
\* "NaN-NaN-NaN"
AnalyseItem(e) ==
    LET sourceDate == getColumnValue(e.column_values, B_SOURCE_DATE_COLUMN)
        currentTargetDate == getColumnValue(e.column_values, B_TARGET_DATE_COLUMN)
        vehicleStatus == getStatusLabel(e.column_values, VEHICLE_STATUS_COLUMN)
        calculatedTargetDate == BulkTargetDate(sourceDate, vehicleStatus)
    IN  IF ~Truthy(sourceDate)
        THEN [as |-> "skipped", itemId |-> e.id, sourceDate |-> sourceDate,
              newTargetDate |-> Null]
        ELSE IF currentTargetDate = calculatedTargetDate
        THEN [as |-> "correct", itemId |-> e.id, sourceDate |-> sourceDate,
              newTargetDate |-> calculatedTargetDate]
        ELSE [as |-> "update", itemId |-> e.id, sourceDate |-> sourceDate,
              newTargetDate |-> calculatedTargetDate]

IsUpdate(a) == a.as = "update"
IsSkipped(a) == a.as = "skipped"
IsError(a) == a.as = "error"

\* Step 2 of the handler: the analysis of the items fetched
Analyse(board, n) ==
    LET each == [i \in 1..n |-> AnalyseItem(BoardItem(board, i))]
    IN  [totalItems |-> n,
         updates |-> SelectSeq(each, IsUpdate),
         itemsSkipped |-> Len(SelectSeq(each, IsSkipped)),
         errors |-> SelectSeq(each, IsError)]

NoAnalysis == [totalItems |-> 0, updates |-> <<>>, itemsSkipped |-> 0, errors |-> <<>>]

\* Array.prototype.slice(0, n)
Slice0(seq, n) == SubSeq(seq, 1, IF Len(seq) < n THEN Len(seq) ELSE n)

NoBulkResp == [status |-> 0, mode |-> "none"]

NoBulk == [h |-> "bulk", method |-> "GET", params |-> [execute |-> "absent"],
           board |-> <<>>, pc |-> "idle", page |-> 0, fetched |-> 0,
           analysis |-> NoAnalysis, i |-> 0, successCount |-> 0, failCount |-> 0,
           failedUpdates |-> <<>>, writes |-> <<>>, slept |-> 0,
           resp |-> NoBulkResp]

InitBulk ==
    /\ handler = "none"
    /\ item = BlankItem
    /\ queue = <<>>
    /\ inv = [s \in Slots |-> IdleSlot]
    /\ last = NoLast
    /\ nEdits = 0
    /\ sinceEdit = 0
    /\ settled = FALSE
    /\ nOdd = 0
    /\ fin = NoInput
    /\ fout = NoOutput
    /\ run \in {[NoBulk EXCEPT !.method = m, !.params = [execute |-> x], !.board = b] :
                   m \in {"GET", "POST", "OPTIONS"},
                   x \in {"absent", "true", "false"}, b \in Boards}

\* the response of a dry run
DryRunResp(analysis) ==
    [status |-> 200, mode |-> "DRY RUN - No changes made",
     updatePreview |-> Slice0(analysis.updates, PREVIEW_LIMIT),
     totalUpdatesQueued |-> Len(analysis.updates),
     errors |-> analysis.errors]

\* the response of an executed migration
ExecutedResp(r) ==
    [status |-> 200, mode |-> "EXECUTED",
     itemsProcessed |-> Len(r.analysis.updates),
     successfulUpdates |-> r.successCount,
     failedUpdates |-> r.failCount,
     failures |-> r.failedUpdates]

\* the handler up to the first page query
BulkStart ==
    /\ run.h = "bulk" /\ run.pc = "idle"
    /\ run' = IF run.method = "OPTIONS"
              THEN [run EXCEPT !.pc = "done", !.resp = [status |-> 200, mode |-> "options"]]
              ELSE [run EXCEPT !.pc = "fetch", !.page = 1]
    /\ UNCHANGED <<handler, item, queue, inv, last, nEdits, sinceEdit, settled, nOdd, fin, fout>>

\* the handler from the last page on: analysis, then the dry-run response or
\* the first write
AfterFetch(r) ==
    LET analysis == Analyse(r.board, r.fetched)
        a == [r EXCEPT !.analysis = analysis]
    IN  IF ~executeForReal(r.params)
        THEN [a EXCEPT !.pc = "done", !.resp = DryRunResp(analysis)]
        ELSE IF Len(analysis.updates) = 0
        THEN [a EXCEPT !.pc = "done", !.resp = ExecutedResp(a)]
        ELSE [a EXCEPT !.pc = "write", !.i = 1]

\* fetchAllItems: Monday.com answers a page query with up to 100 items and
\* the cursor of the next page (null after the last), or with an error,
\* which the handler's outer catch turns into a 500
BulkFetch(ok) ==
    /\ run.h = "bulk" /\ run.pc = "fetch"
    /\ LET upto == IF run.page * PAGE_LIMIT < Len(run.board)
                   THEN run.page * PAGE_LIMIT ELSE Len(run.board)
           cursor == run.page * PAGE_LIMIT < Len(run.board)
       IN  run' = IF ~ok
                  THEN [run EXCEPT !.pc = "done",
                                   !.resp = [status |-> 500, mode |-> "error"]]
                  ELSE IF cursor
                  THEN [run EXCEPT !.fetched = upto, !.page = @ + 1]
                  ELSE AfterFetch([run EXCEPT !.fetched = upto])
    /\ UNCHANGED <<handler, item, queue, inv, last, nEdits, sinceEdit, settled, nOdd, fin, fout>>

\* a slip: a failed write ends the migration with a 500
AfterWrite_Abort(r, ok) ==
    LET update == r.analysis.updates[r.i]
        w == [r EXCEPT !.writes = Append(@, [itemId |-> update.itemId,
                                             date |-> update.newTargetDate,
                                             ok |-> ok])]
        c == IF ok THEN [w EXCEPT !.successCount = @ + 1]
             ELSE [w EXCEPT !.failCount = @ + 1,
                            !.failedUpdates = Append(@, update.itemId)]
    IN  IF ~ok
        THEN [c EXCEPT !.pc = "done", !.resp = [status |-> 500, mode |-> "error"]]
        ELSE IF r.i = Len(r.analysis.updates)
        THEN [c EXCEPT !.pc = "done", !.resp = ExecutedResp(c)]
        ELSE IF r.i % BATCH_SIZE = 0
        THEN [c EXCEPT !.pc = "sleep", !.i = @ + 1]
        ELSE [c EXCEPT !.i = @ + 1]

\* the handler from the answer to updateDateColumn of update i on: the
\* try/catch around the call counts the outcome, then comes the next update
\* of the batch, the pause before the next batch, or the response
AfterWrite(r, ok) ==
    LET update == r.analysis.updates[r.i]
        w == [r EXCEPT !.writes = Append(@, [itemId |-> update.itemId,
                                             date |-> update.newTargetDate,
                                             ok |-> ok])]
        c == IF ok THEN [w EXCEPT !.successCount = @ + 1]
             ELSE [w EXCEPT !.failCount = @ + 1,
                            !.failedUpdates = Append(@, update.itemId)]
    IN  IF r.i = Len(r.analysis.updates)
        THEN [c EXCEPT !.pc = "done", !.resp = ExecutedResp(c)]
        ELSE IF r.i % BATCH_SIZE = 0
        THEN [c EXCEPT !.pc = "sleep", !.i = @ + 1]
        ELSE [c EXCEPT !.i = @ + 1]

\* Monday.com answers the mutation of update i, or the call fails
BulkWrite(ok) ==
    /\ run.h = "bulk" /\ run.pc = "write"
    /\ ok \/ run.analysis.updates[run.i].itemId \in FailingItems
    /\ run' = AfterWrite(run, ok)
    /\ UNCHANGED <<handler, item, queue, inv, last, nEdits, sinceEdit, settled, nOdd, fin, fout>>

\* await sleep(DELAY_BETWEEN_BATCHES) is over
BulkWake ==
    /\ run.h = "bulk" /\ run.pc = "sleep"
    /\ run' = [run EXCEPT !.pc = "write", !.slept = @ + DELAY_BETWEEN_BATCHES]
    /\ UNCHANGED <<handler, item, queue, inv, last, nEdits, sinceEdit, settled, nOdd, fin, fout>>

NextBulk ==
    \/ BulkStart
    \/ \E ok \in BOOLEAN : BulkFetch(ok)
    \/ \E ok \in BOOLEAN : BulkWrite(ok)
    \/ BulkWake

BulkSpec == InitBulk /\ [][NextBulk]_vars

-----------------------------------------------------------------------------
(* dependency-check: the report on the monitored repositories                *)

\* two of REPOS_TO_MONITOR
REPOS_TO_MONITOR == <<"ooosh-driver-verification", "netlify-functions">>

\* parseVersion of "major.minor.patch", already split
parseVersion(version) == [major |-> version[1], minor |-> version[2], patch |-> version[3]]

\* checkPackageVersion: the npm registry is asked for the latest version and
\* nothing else; securityIssue is set to false and never changed
checkPackageVersion(dep) ==
    LET current == parseVersion(dep.current)
        latest == parseVersion(dep.latest)
    IN  [updateType |-> IF ~dep.registryOk THEN "none"
                        ELSE IF latest.major > current.major THEN "major"
                        ELSE IF latest.minor > current.minor THEN "minor"
                        ELSE IF latest.patch > current.patch THEN "patch"
                        ELSE "none",
         securityIssue |-> FALSE]

IsMajor(pkgStatus) == pkgStatus.updateType = "major"
IsSecurityIssue(pkgStatus) == pkgStatus.securityIssue

\* checkRepository: package.json is fetched from GitHub or not, and each
\* dependency is checked
checkRepository(repo) ==
    IF ~repo.fetched
    THEN [status |-> "error", majorUpdates |-> 0, securityIssues |-> 0]
    ELSE LET each == [i \in 1..Len(repo.dependencies) |->
                         checkPackageVersion(repo.dependencies[i])]
             majorUpdates == Len(SelectSeq(each, IsMajor))
             securityIssues == Len(SelectSeq(each, IsSecurityIssue))
         IN  [status |-> IF securityIssues > 0 THEN "critical"
                         ELSE IF majorUpdates > 0 THEN "warning"
                         ELSE "healthy",
              majorUpdates |-> majorUpdates,
              securityIssues |-> securityIssues]

\* a slip: the shared services are left out of the overall status
determineOverallStatus_NoServices(report) ==
    IF report.nodeJs = "critical" THEN "critical"
    ELSE IF \E i \in 1..Len(report.repos) : report.repos[i].securityIssues > 0
    THEN "critical"
    ELSE IF report.nodeJs = "warning" THEN "warning"
    ELSE IF \E i \in 1..Len(report.repos) : report.repos[i].majorUpdates > 0
    THEN "warning"
    ELSE "healthy"

RECURSIVE FlattenSeq(_)
FlattenSeq(ss) == IF ss = <<>> THEN <<>> ELSE Head(ss) \o FlattenSeq(Tail(ss))

NO_ACTIONS == [priority |-> "none",
               action |-> <<"No actions required this week - all systems healthy">>]

\* compileRecommendations: an action text is kept as the parts it is built from
compileRecommendations(report) ==
    LET n == Len(report.repos)
        nodeJs ==
            IF report.nodeJs = "critical"
            THEN <<[priority |-> "critical", action |-> <<"Upgrade Node.js immediately">>]>>
            ELSE IF report.nodeJs = "warning"
            THEN <<[priority |-> "high", action |-> <<"Plan Node.js upgrade">>]>>
            ELSE <<>>
        security ==
            FlattenSeq([i \in 1..n |->
                IF report.repos[i].securityIssues > 0
                THEN <<[priority |-> "critical",
                        action |-> <<REPOS_TO_MONITOR[i],
                                     NumStr(report.repos[i].securityIssues),
                                     "security vulnerabilities - run npm audit">>]>>
                ELSE <<>>])
        major ==
            FlattenSeq([i \in 1..n |->
                IF report.repos[i].majorUpdates > 0
                THEN <<[priority |-> "medium",
                        action |-> <<REPOS_TO_MONITOR[i],
                                     NumStr(report.repos[i].majorUpdates),
                                     "major updates available">>]>>
                ELSE <<>>])
        services ==
            IF report.sharedServices = "warning"
            THEN <<[priority |-> "high", action |-> <<"Check for newer version.">>]>>
            ELSE <<>>
        recommendations == nodeJs \o security \o major \o services
    IN  IF Len(recommendations) = 0 THEN <<NO_ACTIONS>> ELSE recommendations

determineOverallStatus(report) ==
    IF report.nodeJs = "critical" THEN "critical"
    ELSE IF \E i \in 1..Len(report.repos) : report.repos[i].securityIssues > 0
    THEN "critical"
    ELSE IF report.nodeJs = "warning" THEN "warning"
    ELSE IF \E i \in 1..Len(report.repos) : report.repos[i].majorUpdates > 0
    THEN "warning"
    ELSE IF report.sharedServices = "warning" THEN "warning"
    ELSE "healthy"

MaxDeps == 2

\* a dependency as package.json and the world have it: the version asked
\* for, the latest one published, whether the registry answers, and whether
\* a vulnerability of it is known
Dependencies ==
    {[current |-> <<1, 2, 0>>, latest |-> l, registryOk |-> TRUE, vulnerable |-> v] :
        l \in {<<1, 2, 0>>, <<2, 0, 0>>}, v \in BOOLEAN}
    \cup {[current |-> <<1, 2, 0>>, latest |-> <<1, 2, 1>>, registryOk |-> FALSE,
           vulnerable |-> FALSE]}

Repositories ==
    {[fetched |-> FALSE, dependencies |-> <<>>]}
    \cup {[fetched |-> TRUE, dependencies |-> d] :
            d \in UNION {[1..n -> Dependencies] : n \in 0..MaxDeps}}

InitDependencyCheck ==
    /\ Quiet
    /\ fin \in {[nodeJs |-> n, sharedServices |-> v, repos |-> r] :
                   n \in {"healthy", "warning", "critical"},
                   v \in {"healthy", "warning"},
                   r \in [1..Len(REPOS_TO_MONITOR) -> Repositories]}
    /\ fout = [done |-> FALSE]

\* the handler: every monitored repository is checked, the recommendations
\* are compiled, then the overall status is determined
DependencyCheck ==
    /\ ~fout.done
    /\ LET repos == [i \in 1..Len(fin.repos) |-> checkRepository(fin.repos[i])]
       IN  fout' = [done |-> TRUE,
                    repos |-> repos,
                    recommendations |-> compileRecommendations(
                                    [nodeJs |-> fin.nodeJs,
                                     sharedServices |-> fin.sharedServices,
                                     repos |-> repos]),
                    overall |-> determineOverallStatus(
                                    [nodeJs |-> fin.nodeJs,
                                     sharedServices |-> fin.sharedServices,
                                     repos |-> repos])]
    /\ UNCHANGED <<handler, item, queue, inv, last, nEdits, sinceEdit, settled, nOdd, fin, run>>

DependencySpec == InitDependencyCheck /\ [][DependencyCheck]_vars

\* the report as compileRecommendations and determineOverallStatus get it,
\* with every combination of statuses and counters
Counters == {0, 1, 4}
InitReport ==
    /\ Quiet
    /\ fin \in {[nodeJs |-> n, sharedServices |-> v, repos |-> r] :
                   n \in {"healthy", "warning", "critical"},
                   v \in {"healthy", "warning"},
                   r \in [1..Len(REPOS_TO_MONITOR) ->
                            [securityIssues : Counters, majorUpdates : Counters]]}
    /\ fout = [done |-> FALSE]

CompileReport ==
    /\ ~fout.done
    /\ fout' = [done |-> TRUE,
                recommendations |-> compileRecommendations(fin),
                overall |-> determineOverallStatus(fin)]
    /\ UNCHANGED <<handler, item, queue, inv, last, nEdits, sinceEdit, settled, nOdd, fin, run>>

ReportSpec == InitReport /\ [][CompileReport]_vars

-----------------------------------------------------------------------------
(* crew-email-copy against changes of the connect column: item holds the    *)
(* connect column and the text column of the Crewed Jobs item, queue the    *)
(* deliveries still to be made (each with the linked items of its change),  *)
(* inv the invocations in flight, last what the invocations have answered.  *)

SOURCE_EMAIL_COLUMN == "email"

\* the freelancers and the email column of each on the Freelance Crew board
Freelancers == {"2002", "2003"}
EmailOf(f) == IF f = "2002" THEN <<"a", "@", "x", ".", "u", "k">> ELSE <<"b", "@", "x", ".", "u", "k">>

\* items(ids: [freelancerId]) { column_values { id text value } }
FreelancerData(f) ==
    [c \in {SOURCE_EMAIL_COLUMN} |->
        [text |-> EmailOf(f),
         value |-> [kind |-> "obj", url |-> Null, text |-> Null, date |-> Null,
                    label |-> Null, index |-> FALSE, email |-> EmailOf(f)]]]

\* what the connect column can be changed to: linkedPulseIds in order
Connections == {<<>>, <<"2002">>, <<"2003">>, <<"2003", "2002">>}

CecIdle == [pc |-> "idle", connectedIds |-> <<>>, value |-> Empty]

InitCec ==
    /\ handler = "cec"
    /\ item = [connected |-> <<>>, text |-> Empty]
    /\ queue = <<>>
    /\ inv = [s \in Slots |-> CecIdle]
    /\ last = [status |-> 0, failed |-> FALSE]
    /\ nEdits = 0
    /\ sinceEdit = 0
    /\ settled = FALSE
    /\ nOdd = 0
    /\ fin = NoInput
    /\ fout = NoOutput
    /\ run = NoRun

\* the connect column is changed; Monday.com queues a delivery that carries
\* the new linkedPulseIds
Connect(v) ==
    /\ nEdits < MaxEdits
    /\ v # item.connected
    /\ item' = [item EXCEPT !.connected = v]
    /\ queue' = Append(queue, [linkedPulseIds |-> v])
    /\ nEdits' = nEdits + 1
    /\ UNCHANGED <<handler, inv, last, sinceEdit, settled, nOdd, fin, fout, run>>

\* delivery i is made (deliveries may overtake each other): the handler
\* takes connectedIds from the payload and runs to its first remote call,
\* the clearing mutation or the freelancer query
CecDeliver(s, i) ==
    /\ inv[s].pc = "idle"
    /\ i \in 1..Len(queue)
    /\ LET connectedIds == queue[i].linkedPulseIds
       IN  inv' = [inv EXCEPT ![s] =
                     IF Len(connectedIds) = 0
                     THEN [pc |-> "write", connectedIds |-> connectedIds, value |-> Empty]
                     ELSE [pc |-> "lookup", connectedIds |-> connectedIds, value |-> Empty]]
    /\ queue' = [k \in 1..(Len(queue) - 1) |-> IF k < i THEN queue[k] ELSE queue[k + 1]]
    /\ UNCHANGED <<handler, item, last, nEdits, sinceEdit, settled, nOdd, fin, fout, run>>

\* fetchItemDetails of the first connected freelancer returns, or fails for
\* good and the handler answers 500
CecLookup(s, ok) ==
    /\ inv[s].pc = "lookup"
    /\ IF ok
       THEN LET email == getEmailValue(FreelancerData(inv[s].connectedIds[1]),
                                       SOURCE_EMAIL_COLUMN)
            IN  /\ inv' = [inv EXCEPT ![s].pc = "write",
                                      ![s].value = IF Truthy(email) THEN email ELSE Empty]
                /\ UNCHANGED last
       ELSE /\ inv' = [inv EXCEPT ![s] = CecIdle]
            /\ last' = [status |-> 500, failed |-> TRUE]
    /\ UNCHANGED <<handler, item, queue, nEdits, sinceEdit, settled, nOdd, fin, fout, run>>

\* updateTextColumn(itemId, TARGET_TEXT_COLUMN, value) is applied, or fails
\* for good and the handler answers 500
CecWrite(s, ok) ==
    /\ inv[s].pc = "write"
    /\ IF ok
       THEN /\ item' = [item EXCEPT !.text = inv[s].value]
            /\ last' = [last EXCEPT !.status = 200]
       ELSE /\ last' = [status |-> 500, failed |-> TRUE]
            /\ UNCHANGED item
    /\ inv' = [inv EXCEPT ![s] = CecIdle]
    /\ UNCHANGED <<handler, queue, nEdits, sinceEdit, settled, nOdd, fin, fout, run>>

NextCec ==
    \/ \E v \in Connections : Connect(v)
    \/ \E s \in Slots : \E i \in 1..MaxEdits : CecDeliver(s, i)
    \/ \E s \in Slots : \E ok \in BOOLEAN : CecLookup(s, ok)
    \/ \E s \in Slots : \E ok \in BOOLEAN : CecWrite(s, ok)

CecSpec == InitCec /\ [][NextCec]_vars

-----------------------------------------------------------------------------
(* quote-confirmed-automation against changes of status6 and repeated       *)
(* deliveries: item holds the columns of the Quotes & Hires item, queue the *)
(* deliveries still to be made, run the invocation in flight (one at a      *)
(* time), last the invocation that returned last, sinceEdit the alert       *)
(* emails sent for deliveries of the latest change of status6, nOdd the     *)
(* repeated deliveries, fin the clock.                                      *)

TRIGGER_VALUE == <<"Confirmed quote">>
VEHICLE == <<"Vehicle">>
EMAIL_NOW == <<"Email now">>
NEEDED == <<"NEEDED">>
LAST_MINUTE_THRESHOLD == 3
VEHICLE_EMAIL_NOW_THRESHOLD == 10

\* new Date(dateStr) for the text of a date column: midnight UTC of the day
DateParse(s) ==
    IF IsDateString(s)
    THEN [nan |-> FALSE,
          t |-> MakeDate(MakeDay(StrNum(SubSeq(s, 1, 4)), StrNum(SubSeq(s, 6, 7)) - 1,
                                 StrNum(SubSeq(s, 9, 10))), 0)]
    ELSE [nan |-> TRUE, t |-> 0]

\* date.setHours(0, 0, 0, 0); the function runs in UTC
SetHours0(date) == IF date.nan THEN date ELSE [date EXCEPT !.t = Day(date.t) * HoursPerDay]

\* Math.ceil(x / 24) for an integer x
CeilDays(x) == -((-x) \div HoursPerDay)

\* a JS number or null: isNull, else NaN (nan), else the integer n
JsNull == [isNull |-> TRUE, nan |-> FALSE, n |-> 0]
JsNaN == [isNull |-> FALSE, nan |-> TRUE, n |-> 0]
JsNum(n) == [isNull |-> FALSE, nan |-> FALSE, n |-> n]

\* calculateDaysUntil(dateStr) at time now: nothing in the try block throws,
\* an unparseable text gives NaN
calculateDaysUntil(dateStr, now) ==
    IF ~Truthy(dateStr) THEN JsNull
    ELSE LET targetDate == SetHours0(DateParse(dateStr))
             today == SetHours0([nan |-> FALSE, t |-> now])
         IN  IF targetDate.nan THEN JsNaN
             ELSE JsNum(CeilDays(targetDate.t - today.t))

\* daysUntilHire !== null && daysUntilHire <= threshold
Within(daysUntilHire, threshold) ==
    ~daysUntilHire.isNull /\ ~daysUntilHire.nan /\ daysUntilHire.n <= threshold

\* a slip: the alert goes out on the vehicle threshold
IsLastMinute_VehicleThreshold(daysUntilHire) ==
    Within(daysUntilHire, VEHICLE_EMAIL_NOW_THRESHOLD)

\* AUTOMATION 1 applies
IsLastMinute(daysUntilHire) == Within(daysUntilHire, LAST_MINUTE_THRESHOLD)

\* AUTOMATION 2: the label status8 is set to
VehicleStatusFor(daysUntilHire) ==
    IF Within(daysUntilHire, VEHICLE_EMAIL_NOW_THRESHOLD) THEN EMAIL_NOW ELSE NEEDED

\* the clock: the first of March 2024, at midnight or late in the evening
TODAY == MakeDay(2024, 2, 1)
Clocks == {MakeDate(TODAY, 0), MakeDate(TODAY, 23)}

\* what the hire start date column can show, and the item types
Date240228 == <<"2", "0", "2", "4", "-", "0", "2", "-", "2", "8">>
Date240304 == <<"2", "0", "2", "4", "-", "0", "3", "-", "0", "4">>
Date240305 == <<"2", "0", "2", "4", "-", "0", "3", "-", "0", "5">>
Date240311 == <<"2", "0", "2", "4", "-", "0", "3", "-", "1", "1">>
Date240312 == <<"2", "0", "2", "4", "-", "0", "3", "-", "1", "2">>
HireDates == {Empty, INVALID_DATE, Date240228, Date240301, Date240304, Date240305,
              Date240311, Date240312}
ItemTypes == {Empty, VEHICLE, <<"Backline">>}
QuoteStatuses == {TRIGGER_VALUE, <<"Quote sent">>}

QcaItem == [status6 |-> Empty, date |-> Empty, type |-> Empty, status8 |-> Empty]

QcaIdle == [h |-> "qca", pc |-> "idle", change |-> 0, itemData |-> QcaItem, daysUntilHire |-> JsNull,
            newStatus |-> Empty, mail |-> "none", update |-> "none", actions |-> <<>>]

QcaNoLast == [returned |-> FALSE, status |-> 0, message |-> "", itemData |-> QcaItem,
              daysUntilHire |-> JsNull, newStatus |-> Empty, mail |-> "none",
              update |-> "none", actions |-> <<>>]

InitQca ==
    /\ handler = "qca"
    /\ item \in {[QcaItem EXCEPT !.date = d, !.type = t] :
                    d \in HireDates, t \in ItemTypes}
    /\ queue = <<>>
    /\ inv = [s \in Slots |-> IdleSlot]
    /\ last = QcaNoLast
    /\ nEdits = 0
    /\ sinceEdit = 0
    /\ settled = FALSE
    /\ nOdd = 0
    /\ fin \in {[now |-> c] : c \in Clocks}
    /\ fout = NoOutput
    /\ run = QcaIdle

\* the invocation returns {statusCode, body}
QcaReturn(r, status, message) ==
    /\ last' = [returned |-> TRUE, status |-> status, message |-> message,
                itemData |-> r.itemData, daysUntilHire |-> r.daysUntilHire,
                newStatus |-> r.newStatus, mail |-> r.mail, update |-> r.update,
                actions |-> r.actions]
    /\ run' = QcaIdle

\* status6 is changed by a user; Monday.com queues a delivery
EditQuoteStatus(v) ==
    /\ nEdits < MaxEdits
    /\ Len(queue) < MaxQueue
    /\ v # item.status6
    /\ item' = [item EXCEPT !.status6 = v]
    /\ queue' = Append(queue, [columnId |-> QCA_TRIGGER_COLUMN, change |-> nEdits + 1,
                              again |-> FALSE])
    /\ nEdits' = nEdits + 1
    /\ sinceEdit' = 0
    /\ UNCHANGED <<handler, inv, last, settled, nOdd, fin, fout, run>>

\* Monday.com delivers the last change once more (a duplicate or a retry)
Redeliver ==
    /\ nEdits > 0
    /\ nOdd < MaxOdd
    /\ Len(queue) < MaxQueue
    /\ queue' = Append(queue, [columnId |-> QCA_TRIGGER_COLUMN, change |-> nEdits,
                              again |-> TRUE])
    /\ nOdd' = nOdd + 1
    /\ UNCHANGED <<handler, item, inv, last, nEdits, sinceEdit, settled, fin, fout, run>>

\* a delivery is made: the handler passes its filters and awaits fetchItemDetails
QcaDeliver ==
    /\ run.pc = "idle"
    /\ queue # <<>>
    /\ queue' = Tail(queue)
    /\ run' = [QcaIdle EXCEPT !.pc = "fetch", !.change = Head(queue).change]
    /\ UNCHANGED <<handler, item, inv, last, nEdits, sinceEdit, settled, nOdd, fin, fout>>

\* the handler from AUTOMATION 2 on
QcaVehicle(r) ==
    IF r.itemData.type = VEHICLE
    THEN /\ run' = [r EXCEPT !.pc = "status",
                             !.newStatus = VehicleStatusFor(r.daysUntilHire)]
         /\ UNCHANGED last
    ELSE QcaReturn(r, 200, "success")

\* fetchItemDetails returns (or throws: 500); the handler runs to its next await
QcaFetch(ok) ==
    /\ run.pc = "fetch"
    /\ IF ~ok THEN QcaReturn(run, 500, "error")
       ELSE LET quoteStatus == OrNull(item.status6)
                r == [run EXCEPT !.itemData = item,
                                 !.daysUntilHire =
                                     IF quoteStatus # TRIGGER_VALUE THEN JsNull
                                     ELSE calculateDaysUntil(OrNull(item.date), fin.now)]
            IN  IF quoteStatus # TRIGGER_VALUE
                THEN QcaReturn(r, 200, "Status not confirmed quote")
                ELSE IF IsLastMinute(r.daysUntilHire)
                THEN run' = [r EXCEPT !.pc = "email"] /\ UNCHANGED last
                ELSE QcaVehicle(r)
    /\ UNCHANGED <<handler, item, queue, inv, nEdits, sinceEdit, settled, nOdd, fin, fout>>

\* transporter.sendMail resolves, or rejects and the error is caught
QcaEmail(ok) ==
    /\ run.pc = "email"
    /\ sinceEdit' = IF ok /\ run.change = nEdits /\ sinceEdit < 2
                    THEN sinceEdit + 1 ELSE sinceEdit
    /\ QcaVehicle([run EXCEPT !.mail = IF ok THEN "sent" ELSE "failed",
                              !.actions = Append(@, IF ok THEN "sent_last_minute_email"
                                                    ELSE "email_failed")])
    /\ UNCHANGED <<handler, item, queue, inv, nEdits, settled, nOdd, fin, fout>>

\* updateColumnValue(itemId, 'status8', newStatus) is applied, or throws and
\* the error is caught
QcaStatus(ok) ==
    /\ run.pc = "status"
    /\ item' = IF ok THEN [item EXCEPT !.status8 = run.newStatus] ELSE item
    /\ QcaReturn([run EXCEPT !.update = IF ok THEN "done" ELSE "failed",
                             !.actions = Append(@, IF ok THEN "set_status8"
                                                   ELSE "status_update_failed")],
                 200, "success")
    /\ UNCHANGED <<handler, queue, inv, nEdits, sinceEdit, settled, nOdd, fin, fout>>

NextQca ==
    \/ \E v \in QuoteStatuses : EditQuoteStatus(v)
    \/ Redeliver
    \/ QcaDeliver
    \/ \E ok \in BOOLEAN : QcaFetch(ok)
    \/ \E ok \in BOOLEAN : QcaEmail(ok)
    \/ \E ok \in BOOLEAN : QcaStatus(ok)

QcaSpec == InitQca /\ [][NextQca]_vars

-----------------------------------------------------------------------------
(* generate-tool-token: one request.  A string that is split on '.' is kept *)
(* as the sequence of its parts; a part is a name, a string of characters   *)
(* or a signature.                                                          *)

TOKEN_DURATION_MS == 5 * 60 * 1000

\* crypto.createHmac('sha256', secret).update(payload).digest('hex')
\* .substring(0, 32): a tag that stands for its key and its message (no two
\* keys or messages give the same tag)
Sign(secret, payload) == [key |-> secret, msg |-> payload]

\* parseInt(s, 10) of a string of digits and letters: its leading digits
parseInt(s) ==
    LET n == CHOOSE k \in 0..Len(s) :
                 /\ \A i \in 1..k : IsDigit(s[i])
                 /\ k < Len(s) => ~IsDigit(s[k + 1])
    IN  IF n = 0 THEN JsNaN ELSE JsNum(StrNum(SubSeq(s, 1, n)))

\* a slip: the expiry is not compared with the clock
validateSessionToken_NoExpiry(token, secret, now) ==
    IF token.kind # "string" \/ secret = "" THEN FALSE
    ELSE LET parts == token.parts
         IN  IF Len(parts) # 3 THEN FALSE
             ELSE IF parts[1] # "session" THEN FALSE
             ELSE IF parseInt(parts[2]).nan THEN FALSE
             ELSE parts[3] = Sign(secret, <<parts[1], parts[2]>>)

\* validateSessionToken(token, secret) at time now.  token.kind is
\* "undefined" (absent, null or ''), "number" (split is not a function: the
\* TypeError is caught) or "string"
validateSessionToken(token, secret, now) ==
    IF token.kind # "string" \/ secret = "" THEN FALSE
    ELSE LET parts == token.parts
         IN  IF Len(parts) # 3 THEN FALSE
             ELSE IF parts[1] # "session" THEN FALSE
             ELSE LET expiryTime == parseInt(parts[2])
                  IN  IF expiryTime.nan \/ now > expiryTime.n THEN FALSE
                      ELSE parts[3] = Sign(secret, <<parts[1], parts[2]>>)

NoToken == [kind |-> "undefined", parts |-> <<>>]
TokenResp(status, success, error, token) ==
    [status |-> status, success |-> success, error |-> error, token |-> token]

\* JSON.parse(event.body || '{}') and the destructuring of its result: body
\* is "object", "bad" (JSON.parse throws) or "null" (destructuring throws)
\* exports.handler for request req; req.now is the clock at validation,
\* req.later the clock when the token is made
generateToolToken(req) ==
    IF req.method = "OPTIONS" THEN TokenResp(200, FALSE, "", NoToken)
    ELSE IF req.method # "POST" THEN TokenResp(405, FALSE, "Method not allowed", NoToken)
    ELSE IF req.body # "object" THEN TokenResp(500, FALSE, "Server error", NoToken)
    ELSE IF req.secret = ""
    THEN TokenResp(500, FALSE, "Server configuration error", NoToken)
    ELSE IF ~validateSessionToken(req.sessionToken, req.secret, req.now)
    THEN TokenResp(401, FALSE, "Invalid or expired session", NoToken)
    ELSE IF req.toolId \in {Undefined, ""}
    THEN TokenResp(400, FALSE, "Tool ID required", NoToken)
    ELSE LET expiry == req.later + TOKEN_DURATION_MS
             jobPart == IF req.jobId \in {Undefined, ""} THEN "none" ELSE req.jobId
             payload == <<NumStr(expiry), req.toolId, jobPart>>
         IN  TokenResp(200, TRUE, "",
                       [kind |-> "string",
                        parts |-> Append(payload, Sign(req.secret, payload))])

\* the requests
STAFF_HUB_SECRET == "k1"
Keys == {STAFF_HUB_SECRET, "k2"}
Expiries == {<<"9", "0", "0">>, <<"1", "0", "0", "0">>, <<"2", "0", "0", "0">>,
             <<"2", "0", "0", "0", "x">>, <<"x">>}
SessionTokens ==
    {NoToken, [kind |-> "number", parts |-> <<>>]}
    \cup UNION {{[kind |-> "string", parts |-> <<t, e, Sign(k, <<t, e2>>)>>] :
                    t \in {"session", "tool"}, k \in Keys,
                    e2 \in {e, <<"2", "0", "0", "0">>}} : e \in Expiries}
    \cup {[kind |-> "string", parts |-> <<"session", e>>] : e \in Expiries}
    \cup {[kind |-> "string",
           parts |-> <<e, "van", "none", Sign(STAFF_HUB_SECRET, <<e, "van", "none">>)>>] :
            e \in Expiries}

InitToken ==
    /\ Quiet
    /\ fin \in {[method |-> m, body |-> b, secret |-> k, sessionToken |-> t,
                 toolId |-> tool, jobId |-> job, now |-> 1000, later |-> l] :
                   m \in {"POST", "OPTIONS", "GET"}, b \in {"object", "bad", "null"},
                   k \in {"", STAFF_HUB_SECRET}, t \in SessionTokens,
                   tool \in {Undefined, "", "van"}, job \in {Undefined, "13"},
                   l \in {1000, 1001}}
    /\ fout = [done |-> FALSE]

GenerateToolToken ==
    /\ ~fout.done
    /\ fout' = [done |-> TRUE, resp |-> generateToolToken(fin)]
    /\ UNCHANGED <<handler, item, queue, inv, last, nEdits, sinceEdit, settled, nOdd, fin, run>>

TokenSpec == InitToken /\ [][GenerateToolToken]_vars

-----------------------------------------------------------------------------
(* health-check: one request.  fin holds the method and the environment     *)
(* variables that are not set; fout the results of the checks that have     *)
(* ended (the checks run in parallel) and the response.                     *)

REQUIRED_ENV_VARS == <<"MONDAY_API_TOKEN", "ANTHROPIC_API_KEY", "IDENFY_API_KEY",
                       "IDENFY_API_SECRET", "HIREHOP_API_TOKEN">>
SMTP_ENV_VARS == {"SMTP_HOST", "SMTP_USER", "SMTP_PASS"}

Services == {"monday", "idenfy", "claude", "smtp", "hirehop"}

\* const result = { status: 'unknown', message: '' }
UnknownResult == [status |-> "unknown", message |-> ""]
Healthy(message) == [status |-> "healthy", message |-> message]
Unhealthy(message) == [status |-> "unhealthy", message |-> message]

\* the catch block of a check: the request timed out or was rejected
CheckFailed(ans) ==
    Unhealthy(IF ans = "abort" THEN "Request timeout (>10s)" ELSE "fetch failed")

\* checkMondayAPI, answered by ans
checkMondayAPI(missing, ans) ==
    IF "MONDAY_API_TOKEN" \in missing THEN Unhealthy("MONDAY_API_TOKEN not configured")
    ELSE CASE ans \in {"abort", "reject"} -> CheckFailed(ans)
           [] ans = "http500" -> Unhealthy("HTTP 500")
           [] ans = "notjson" -> Unhealthy("Unexpected token")
           [] ans = "errors" -> Unhealthy("GraphQL error")
           [] ans = "ok" -> Healthy("API responding normally")
           [] OTHER -> Unhealthy("Unexpected response structure")

\* checkIdenfyAPI
checkIdenfyAPI(missing, ans) ==
    IF {"IDENFY_API_KEY", "IDENFY_API_SECRET"} \cap missing # {}
    THEN Unhealthy("IDENFY credentials not configured")
    ELSE CASE ans \in {"abort", "reject"} -> CheckFailed(ans)
           [] ans \in {"http401", "http403"} -> Unhealthy("Invalid API credentials")
           [] OTHER -> Healthy("API reachable and credentials valid")

\* checkClaudeAPI
checkClaudeAPI(missing, ans) ==
    IF "ANTHROPIC_API_KEY" \in missing THEN Unhealthy("ANTHROPIC_API_KEY not configured")
    ELSE CASE ans \in {"abort", "reject"} -> CheckFailed(ans)
           [] ans = "http401" -> Unhealthy("Invalid API key")
           [] ans = "http429" -> Healthy("API responding (rate limited)")
           [] ans = "ok" -> Healthy("API responding normally")
           [] OTHER -> Unhealthy("HTTP 500")

\* checkSMTPConfig: no request is made
checkSMTPConfig(missing) ==
    IF SMTP_ENV_VARS \cap missing # {} THEN Unhealthy("SMTP configuration incomplete")
    ELSE Healthy("SMTP configured")

\* checkHireHopAPI
checkHireHopAPI(missing, ans) ==
    IF "HIREHOP_API_TOKEN" \in missing THEN Unhealthy("HIREHOP_API_TOKEN not configured")
    ELSE CASE ans \in {"abort", "reject"} -> CheckFailed(ans)
           [] ans = "html" -> Unhealthy("Invalid token (HTML response)")
           [] ans = "notjson" -> Unhealthy("Invalid response format")
           [] OTHER -> Healthy("API responding (token valid)")

\* checkEnvironmentVars
checkEnvironmentVars(missing) ==
    IF \E i \in 1..Len(REQUIRED_ENV_VARS) : REQUIRED_ENV_VARS[i] \in missing
    THEN Unhealthy("Missing") ELSE Healthy("All required variables configured")

\* a slip: only Monday.com is critical
OverallOf_MondayOnly(services) ==
    IF services.monday.status # "healthy" THEN "critical"
    ELSE IF \E x \in Services : services[x].status = "unhealthy" THEN "degraded"
    ELSE "healthy"

\* results.overall from the five service results
OverallOf(services) ==
    LET criticalHealthy == services.monday.status = "healthy"
                           /\ services.smtp.status = "healthy"
        allHealthy == Cardinality({x \in Services : services[x].status = "unhealthy"}) = 0
    IN  IF ~criticalHealthy THEN "critical"
        ELSE IF ~allHealthy THEN "degraded"
        ELSE "healthy"

\* the answers of the remote services
HealthAnswers(x) ==
    CASE x = "monday" -> {"abort", "reject", "http500", "notjson", "errors", "other", "ok"}
      [] x = "idenfy" -> {"abort", "reject", "http401", "http403", "http404", "ok"}
      [] x = "claude" -> {"abort", "reject", "http401", "http429", "http500", "ok"}
      [] x = "hirehop" -> {"abort", "reject", "html", "notjson", "json"}
      [] OTHER -> {"none"}

Environments == {{}, {"MONDAY_API_TOKEN"}, {"IDENFY_API_SECRET"}, {"SMTP_PASS"},
                 {"ANTHROPIC_API_KEY", "HIREHOP_API_TOKEN"}}

NoHealth == [done |-> FALSE, ended |-> {},
             services |-> [x \in Services |-> UnknownResult],
             environment |-> UnknownResult, overall |-> "healthy", statusCode |-> 0]

InitHealth ==
    /\ Quiet
    /\ fin \in {[method |-> m, missing |-> e] :
                   m \in {"GET", "OPTIONS"}, e \in Environments}
    /\ fout = NoHealth

\* the preflight request is answered without any check
HealthPreflight ==
    /\ ~fout.done
    /\ fin.method = "OPTIONS"
    /\ fout' = [fout EXCEPT !.done = TRUE, !.statusCode = 200]
    /\ UNCHANGED <<handler, item, queue, inv, last, nEdits, sinceEdit, settled, nOdd, fin, run>>

\* the check of service x ends
HealthCheck(x, ans) ==
    /\ ~fout.done
    /\ fin.method # "OPTIONS"
    /\ x \notin fout.ended
    /\ fout' = [fout EXCEPT
                  !.ended = @ \cup {x},
                  !.services[x] =
                      CASE x = "monday" -> checkMondayAPI(fin.missing, ans)
                        [] x = "idenfy" -> checkIdenfyAPI(fin.missing, ans)
                        [] x = "claude" -> checkClaudeAPI(fin.missing, ans)
                        [] x = "smtp" -> checkSMTPConfig(fin.missing)
                        [] OTHER -> checkHireHopAPI(fin.missing, ans)]
    /\ UNCHANGED <<handler, item, queue, inv, last, nEdits, sinceEdit, settled, nOdd, fin, run>>

\* checkEnvironmentVars ends
HealthCheckEnv ==
    /\ ~fout.done
    /\ fin.method # "OPTIONS"
    /\ "environment" \notin fout.ended
    /\ fout' = [fout EXCEPT !.ended = @ \cup {"environment"},
                            !.environment = checkEnvironmentVars(fin.missing)]
    /\ UNCHANGED <<handler, item, queue, inv, last, nEdits, sinceEdit, settled, nOdd, fin, run>>

\* Promise.all has resolved: the handler builds its response
HealthReport ==
    /\ ~fout.done
    /\ fout.ended = Services \cup {"environment"}
    /\ LET overall == OverallOf(fout.services)
       IN  fout' = [fout EXCEPT !.done = TRUE, !.overall = overall,
                                !.statusCode = IF overall = "healthy" THEN 200 ELSE 503]
    /\ UNCHANGED <<handler, item, queue, inv, last, nEdits, sinceEdit, settled, nOdd, fin, run>>

NextHealth ==
    \/ HealthPreflight
    \/ \E x \in Services : \E ans \in HealthAnswers(x) : HealthCheck(x, ans)
    \/ HealthCheckEnv
    \/ HealthReport

HealthSpec == InitHealth /\ [][NextHealth]_vars

-----------------------------------------------------------------------------
(* Properties *)

JobIdOf(cv) == extractJobId(getLinkUrl(cv, SOURCE_LINK_COLUMN))
DisplayOf(cv) == cv[SOURCE_LINK_COLUMN].value.text
MarkerOf(cv) == cv[TARGET_TEXT_COLUMN].text

\* the fetched column c already holds the value w a mutation carries for it
Holds(cv, c, w) ==
    CASE w.kind = "link" -> /\ cv[c].value.kind = "obj"
                            /\ cv[c].value.url = w.url
                            /\ cv[c].value.text = w.text
      [] w.kind = "text" -> cv[c].text = w.text
      [] w.kind = "date" -> cv[c].value.kind = "obj" /\ cv[c].value.date = w.date

\* the fetched item gives no source value to derive from
SourceUndetermined(h, cv) ==
    IF h = "dca" THEN cv[SOURCE_DATE_COLUMN] = WireDate(Empty)
    ELSE \/ cv[SOURCE_LINK_COLUMN] = WireLink([url |-> Empty, text |-> Empty])
         \/ cv[SOURCE_LINK_COLUMN].value.url = UrlNoId

NothingToDo == {"No date to copy", "No URL to process",
                "Could not extract job ID from URL"}

Quiescent == queue = <<>> /\ NoneInFlight

\* C1: in crew-transport-link, deliveries processed one at a time and every
\* mutation of `link` delivered once: after an external edit at most one write
\* is applied, the delivery the handler's own write causes is answered by the
\* skip branch without a mutation, and the deliveries come to an end
C1_SelfTriggerEnds ==
    /\ [](handler = "ctl" =>
            /\ sinceEdit <= 1
            /\ \A s \in Slots :
                 (inv[s].cause = "self" /\ inv[s].dclean) => inv[s].pc # "write"
            /\ (last.cause = "self" /\ last.dclean /\ last.got = "item")
                 => (last.resp.msg = "Already fully processed" /\ last.mut = {}))
    /\ <>[]Quiescent

C1_Witness ==
    /\ handler = "ctl"
    /\ last.cause = "self" /\ last.dclean
    /\ last.resp.msg = "Already fully processed"
    /\ sinceEdit = 1
    /\ Quiescent

\* the item needs no write: no source value, or the target columns hold what
\* the source value gives
Converged(h, it) ==
    IF h = "dca"
    THEN \/ it.src = Empty
         \/ it.tgt = DcaTargetDate(it.src, OrNull(it.status))
    ELSE LET job == extractJobId(OrNull(it.link.url))
         IN  \/ job = Null
             \/ (it.link.text = job /\ it.text7 = job)

\* C2: date-copy-automation and crew-transport-link run one after the other
\* with no external change in between: a run that gets as far as its mutation
\* found the item not converged and changes it, a completed run leaves the
\* item converged, and no later run gets as far as a mutation
C2_SecondRunWritesNothing ==
    /\ \A s \in Slots : (inv[s].pc = "write" /\ inv[s].fclean)
                           => /\ ~Converged(handler, item)
                              /\ ApplyMutation(item, inv[s].mut) # item
    /\ settled => /\ Converged(handler, item)
                  /\ \A s \in Slots : inv[s].pc # "write"

C2_Witness ==
    /\ handler = "dca"
    /\ settled /\ sinceEdit = 1
    /\ last.got = "item" /\ last.mut = {} /\ last.resp.status = 200
    /\ last.resp.msg = "No update needed - date already correct"

\* C3 as stated: every column value an issued mutation carries differs from
\* the value of that column the invocation fetched
C3_NoEqualValueWritten ==
    \A s \in Slots : inv[s].pc = "write" =>
        \A p \in inv[s].mut : ~Holds(inv[s].fetched, p[1], p[2])

\* C3 amended: in date-copy-automation the date written differs from the
\* fetched target date; in crew-transport-link an issued mutation differs from
\* the fetched item in the display text of `link` or in text_mm07fcs
C3_SomeValueChanged ==
    \A s \in Slots : inv[s].pc = "write" =>
        IF handler = "dca"
        THEN \A p \in inv[s].mut : ~Holds(inv[s].fetched, p[1], p[2])
        ELSE \E p \in inv[s].mut :
                /\ p[1] \in {SOURCE_LINK_COLUMN, TARGET_TEXT_COLUMN}
                /\ ~Holds(inv[s].fetched, p[1], p[2])

C3_Witness ==
    \E s \in Slots :
        /\ handler = "ctl" /\ inv[s].pc = "write"
        /\ \E p \in inv[s].mut : Holds(inv[s].fetched, p[1], p[2])
        /\ \E p \in inv[s].mut : ~Holds(inv[s].fetched, p[1], p[2])

\* C4 as stated: in crew-transport-link no mutation is issued once
\* text_mm07fcs equals the job ID of the source URL
C4_MarkerAloneSkips ==
    \A s \in Slots : (handler = "ctl" /\ inv[s].pc = "write") =>
        MarkerOf(inv[s].fetched) # JobIdOf(inv[s].fetched)

\* C4 amended: in crew-transport-link no mutation is issued once text_mm07fcs
\* and the display text of `link` both equal the job ID; with the marker equal
\* and the display text not, the mutation is issued and sets the display text
C4_MarkerAndDisplaySkip ==
    handler = "ctl" =>
        /\ \A s \in Slots :
             (inv[s].pc = "write" /\ MarkerOf(inv[s].fetched) = JobIdOf(inv[s].fetched))
               => /\ DisplayOf(inv[s].fetched) # JobIdOf(inv[s].fetched)
                  /\ \E p \in inv[s].mut : /\ p[1] = SOURCE_LINK_COLUMN
                                           /\ p[2].text = JobIdOf(inv[s].fetched)
        /\ (/\ last.got = "item"
            /\ MarkerOf(last.fetched) = JobIdOf(last.fetched)
            /\ DisplayOf(last.fetched) = JobIdOf(last.fetched))
              => last.mut = {}

C4_Witness ==
    \E s \in Slots :
        /\ handler = "ctl" /\ inv[s].pc = "write"
        /\ MarkerOf(inv[s].fetched) = JobIdOf(inv[s].fetched)
        /\ DisplayOf(inv[s].fetched) # JobIdOf(inv[s].fetched)

\* C5: in crew-transport-link, for a fetched item whose URL yields a job ID,
\* the answer is 'Already fully processed' with no mutation exactly when the
\* display text of `link` and text_mm07fcs both equal the job ID; otherwise
\* the mutation is issued
C5_SkipIffBothMatch ==
    handler = "ctl" =>
        /\ (last.got = "item" /\ Truthy(JobIdOf(last.fetched))) =>
             LET both == /\ DisplayOf(last.fetched) = JobIdOf(last.fetched)
                         /\ MarkerOf(last.fetched) = JobIdOf(last.fetched)
             IN  /\ (last.resp.msg = "Already fully processed") <=> both
                 /\ (last.mut = {}) <=> both
        /\ \A s \in Slots : inv[s].pc = "write" =>
             /\ Truthy(JobIdOf(inv[s].fetched))
             /\ inv[s].mut # {}
             /\ ~(/\ DisplayOf(inv[s].fetched) = JobIdOf(inv[s].fetched)
                  /\ MarkerOf(inv[s].fetched) = JobIdOf(inv[s].fetched))

C5_Witness ==
    /\ handler = "ctl"
    /\ last.got = "item" /\ last.mut # {}
    /\ DisplayOf(last.fetched) = JobIdOf(last.fetched)
    /\ MarkerOf(last.fetched) # JobIdOf(last.fetched)

\* two date-copy-automation invocations that overlapped, both fetched after the
\* latest external edit: `last` and the one that returned while it was in flight
ConcurrentPair ==
    /\ handler = "dca"
    /\ last.got = "item" /\ last.peer.got = "item"
    /\ last.peer.clean

SourceRead(cv) == <<getColumnValue(cv, SOURCE_DATE_COLUMN),
                    getStatusLabel(cv, VEHICLE_STATUS_COLUMN)>>

\* C6 as stated: two concurrent date-copy-automation invocations with no
\* external edit in between read the same state, their mutations carry the
\* same target date, and the target column ends as one invocation leaves it
C6_SameStateRead ==
    ConcurrentPair =>
        /\ last.fetched = last.peer.fetched
        /\ \A p \in last.mut \cup last.peer.mut :
             p[2].date = DcaTargetDate(SourceRead(last.fetched)[1],
                                       SourceRead(last.fetched)[2])
        /\ (settled /\ last.fclean /\ Truthy(SourceRead(last.fetched)[1]))
             => item.tgt = DcaTargetDate(SourceRead(last.fetched)[1],
                                         SourceRead(last.fetched)[2])

\* C6 amended: they read the same source date and status label (the later
\* fetch may already see the other's write in the target column), their
\* mutations carry the same target date, and the target column ends as one
\* invocation leaves it
C6_SameSourceRead ==
    ConcurrentPair =>
        /\ SourceRead(last.fetched) = SourceRead(last.peer.fetched)
        /\ \A p \in last.mut \cup last.peer.mut :
             /\ p[1] = TARGET_DATE_COLUMN
             /\ p[2].date = DcaTargetDate(SourceRead(last.fetched)[1],
                                          SourceRead(last.fetched)[2])
        /\ (settled /\ last.fclean /\ Truthy(SourceRead(last.fetched)[1]))
             => item.tgt = DcaTargetDate(SourceRead(last.fetched)[1],
                                         SourceRead(last.fetched)[2])

C6_Witness ==
    /\ ConcurrentPair
    /\ last.mut # {} /\ last.peer.mut # {}
    /\ last.wok = "ok" /\ last.peer.wok = "ok"
    /\ settled /\ last.fclean

\* two invocations given the same request that fetched the same item state
SamePair ==
    /\ last.got = "item" /\ last.peer.got = "item"
    /\ last.req = last.peer.req
    /\ last.fetched = last.peer.fetched

C8_NoSourceNoWrite ==
    /\ \A s \in Slots : inv[s].pc = "write" => ~SourceUndetermined(handler, inv[s].fetched)
    /\ (last.got = "item" /\ SourceUndetermined(handler, last.fetched)) =>
          /\ last.resp.status = 200
          /\ last.resp.msg \in NothingToDo
          /\ last.mut = {} /\ last.wok = "none"

C8_Witness ==
    /\ last.got = "item"
    /\ SourceUndetermined(handler, last.fetched)
    /\ last.resp.msg = "Could not extract job ID from URL"
    /\ last.mut = {}

\* C9: for every valid date d the date-copy-automation target is d for the
\* label 'Rehearsal' and the previous calendar day for any other label, and the
\* bulk migration target is d for 'Rehearsal' and the next calendar day
\* otherwise
C9_DateShiftExact ==
    fout.done =>
        /\ fout.dca = IF fin.label = REHEARSAL_LABEL THEN fin.d
                      ELSE IsoDate(PrevDay(fin.ymd))
        /\ fout.bulk = IF fin.label = REHEARSAL_LABEL THEN fin.d
                       ELSE IsoDate(NextDay(fin.ymd))

C9_Witness ==
    /\ fout.done
    /\ fin.ymd = <<2100, 3, 1>> /\ fin.label = Null
    /\ fout.dca = IsoDate(<<2100, 2, 28>>)
    /\ fout.bulk = IsoDate(<<2100, 3, 2>>)

\* C10 as stated: a POST whose body is not parseable JSON is answered 200 and
\* no remote call is made
C10_BadJsonIsNoOp ==
    (last.req.method = "POST" /\ ~last.req.json) =>
        (last.resp.status = 200 /\ last.got = "none")

-----------------------------------------------------------------------------
(* The order of the filters, the filtered-out event, the status codes, the   *)
(* verification handshake                                                    *)

\* the request is a POST whose body parses, carries an event and no challenge
\* the handler answers
IsEvent(req) ==
    req.method = "POST" /\ req.json /\ ~Truthy(req.challenge) /\ req.event

ColumnTriggered == Handlers \ {"abc"}

\* C11 as stated: in every column-triggered handler an event from another
\* board that also names an unmonitored column is answered 'Board not
\* monitored', the board being checked before the column
C11_BoardBeforeColumn ==
    (/\ run.pc = "done" /\ run.h \in ColumnTriggered /\ IsEvent(run.req)
     /\ run.req.boardId = OtherBoardOf(run.h)
     /\ run.req.columnId \notin MONITORED_COLUMNS(run.h))
    => run.resp = Resp(200, "Board not monitored")

FilterMessages == {"Column not monitored", "Board not monitored"}

\* C12, amended: an event is filtered out exactly when its column is not
\* monitored or it carries a board identifier that differs from the configured
\* board; a filtered event is answered 200 with no remote call; an event of a
\* monitored column that carries no board identifier reaches the fetch step
C12_FilteredIffColumnOrPresentBoard ==
    (run.pc # "start" /\ run.h \in ColumnTriggered /\ IsEvent(run.req)) =>
        LET out == \/ run.req.columnId \notin MONITORED_COLUMNS(run.h)
                   \/ /\ run.req.boardId # Undefined
                      /\ run.req.boardId # BoardOf(run.h)
        IN  /\ out <=> (run.pc = "done" /\ run.resp.msg \in FilterMessages)
            /\ out => /\ run.resp.status = 200
                      /\ run.trace = <<>> /\ run.phase = "none"
            /\ ~out => run.phase # "none"

\* a monitored column's event from another board has been filtered out
C12_Witness ==
    /\ run.pc = "done" /\ run.h = "cec" /\ IsEvent(run.req)
    /\ run.req.columnId = CONNECT_COLUMN
    /\ run.req.boardId = OtherBoardOf("cec")
    /\ run.resp = Resp(200, "Board not monitored")
    /\ run.trace = <<>>

\* C12 as stated: an event from any board other than the configured one,
\* the event that carries no board identifier included, never reaches the
\* fetch step
C12_OtherBoardNeverFetches ==
    (run.pc # "start" /\ run.h \in ColumnTriggered /\ IsEvent(run.req)
     /\ run.req.boardId # BoardOf(run.h))
    => (run.phase = "none" /\ run.trace = <<>>)

\* C13: every handler answers 200, 405 or 500 on every path; 405 exactly when
\* the method is neither OPTIONS nor POST; OPTIONS gets 200 with an empty body
\* whatever the body it carries, and nothing is sent to the remote for it
C13_StatusCodes ==
    run.pc = "done" =>
        /\ run.resp.status \in {200, 405, 500}
        /\ run.resp.status = 405 <=> run.req.method \notin {"OPTIONS", "POST"}
        /\ run.req.method = "OPTIONS" =>
              (run.resp = Resp(200, "") /\ run.error = Empty /\ run.trace = <<>>)

\* an OPTIONS request whose body does not parse has been answered 200
C13_Witness ==
    /\ run.pc = "done" /\ run.req.method = "OPTIONS" /\ ~run.req.json
    /\ run.resp = Resp(200, "")

\* C14 as stated: every POST body that carries a challenge field, whatever its
\* value and whatever else it carries, is answered 200 with that same value
\* as challenge, and no remote call is made
C14_ChallengeEchoed ==
    (run.pc # "start" /\ run.req.method = "POST" /\ run.req.json
     /\ run.req.challenge # Null)
    => /\ run.pc = "done"
       /\ run.resp.status = 200 /\ run.resp.challenge = run.req.challenge
       /\ run.trace = <<>>

-----------------------------------------------------------------------------
(* The retry loop, the classification of failures, termination, remote       *)
(* errors, the columns written                                               *)

\* the error messages of the model that name a transient condition
TransientMessages == {GRAPHQL_PREFIX \o RATE_LIMIT_MESSAGE, CONNECT_TIMED_OUT}

\* the trace entry i is a failure the retry loop goes round again for
Retried(i) ==
    \/ i = Len(run.trace) /\ run.pc = "sleep"
    \/ i < Len(run.trace) /\ run.trace[i + 1].ev = "sleep"

\* the trace entry i is a failure thrown to the handler, which answers 500
\* with its message
Surfaced(i) ==
    /\ i = Len(run.trace) /\ run.pc = "done"
    /\ run.resp.status = 500 /\ run.error = run.trace[i].msg

\* C15: callMondayAPIWithRetry makes at most 3 attempts, returns the first
\* success without a further attempt, rethrows a non-retryable error at once,
\* waits 1000 ms before the second attempt and 2000 ms before the third, and
\* throws the last error when the third attempt fails
C15_RetryPolicy ==
    HasRetry(run.h) =>
        LET t == run.trace
            n == Len(run.trace)
        IN  \A i \in 1..n :
              /\ t[i].ev = "call" =>
                    /\ t[i].attempt \in 1..3
                    /\ t[i].attempt = 1 => (i = 1 \/ t[i - 1].ev = "ok")
                    /\ t[i].attempt > 1 =>
                          /\ t[i - 1].ev = "sleep"
                          /\ t[i - 1].delay = IF t[i].attempt = 2 THEN 1000 ELSE 2000
                          /\ t[i - 2].ev = "fail" /\ t[i - 2].op = t[i].op
                          /\ t[i - 2].attempt = t[i].attempt - 1
                          /\ t[i - 2].msg \in TransientMessages
              /\ t[i].ev = "ok" =>
                    IF i = n THEN run.pc = "done"
                    ELSE t[i + 1].ev = "call" /\ t[i + 1].attempt = 1
                         /\ t[i + 1].op # t[i].op
              /\ t[i].ev = "fail" =>
                    IF t[i].msg \in TransientMessages /\ t[i].attempt < 3
                    THEN Retried(i)
                    ELSE Surfaced(i)
              /\ t[i].ev = "sleep" => i < n /\ t[i + 1].ev = "call"

\* the third attempt of the item query of crew-transport-link has failed and
\* its error is the handler's answer
C15_Witness ==
    /\ run.h = "ctl" /\ run.pc = "done" /\ Len(run.trace) = 8
    /\ run.trace[8].ev = "fail" /\ run.trace[8].attempt = 3
    /\ run.trace[3].delay = 1000 /\ run.trace[6].delay = 2000
    /\ run.resp.status = 500 /\ run.error = CONNECT_TIMED_OUT

TransientStatuses == {429, 500, 502, 503, 504}

\* C16 as stated: a remote response with HTTP status 429, 500, 502, 503 or 504
\* makes the call fail with a retryable error, and the call is retried up to
\* the attempt limit
C16_TransientStatusRetried ==
    HasRetry(run.h) =>
        \A i \in 1..Len(run.trace) :
            (run.trace[i].ev \in {"ok", "fail"}
             /\ run.trace[i].http \in TransientStatuses) =>
                /\ run.trace[i].ev = "fail"
                /\ run.trace[i].attempt < maxAttempts => Retried(i)

\* C17 as stated: in every webhook handler a transient remote failure is
\* retried, and only the failure of the last attempt is surfaced as a 500
C17_TransientRetriedEverywhere ==
    \A i \in 1..Len(run.trace) :
        (run.trace[i].ev = "fail" /\ run.trace[i].msg \in TransientMessages) =>
            IF run.trace[i].attempt < maxAttempts THEN Retried(i) ELSE Surfaced(i)

\* C18 as stated: every invocation eventually returns, even when the remote
\* API never answers
C18_EveryInvocationReturns == <>(run.pc = "done")

RemoteErrorHandlers == Handlers \ {"qca"}

\* the trace entry i is a call answered with {errors: [...]}
ErrorsAnswer(i) == run.trace[i].ev = "fail" /\ run.trace[i].why = "json"

\* the trace entry i is a query answered with no item
NoItemAnswer(i) ==
    /\ run.trace[i].ev = "ok" /\ run.trace[i].op.kind = "query"
    /\ ~run.trace[i].found

NoWriteAfter(i) ==
    \A j \in (i + 1)..Len(run.trace) :
        ~(run.trace[j].ev = "call" /\ run.trace[j].op.kind = "mutation")

\* C19, amended: when the remote answers a fetch or a write with
\* {errors: [...]} and the retry loop of crew-transport-link or
\* crew-email-copy does not retry the call (the error is not retryable, or it
\* is the third attempt; the other handlers never retry), or when a fetch
\* returns no item, the handler issues no further write and responds 500 with
\* a JSON body whose error carries the first remote error message (or 'Failed
\* to fetch item details'; 'Failed to fetch freelancer details' in
\* crew-email-copy)
C19_RemoteErrorsEndTheRunUnlessRetried ==
    run.h \in RemoteErrorHandlers =>
        \A i \in 1..Len(run.trace) :
            /\ ErrorsAnswer(i) =>
                  \/ /\ HasRetry(run.h) /\ run.trace[i].attempt < maxAttempts
                     /\ run.trace[i].msg \in TransientMessages
                     /\ Retried(i)
                  \/ /\ NoWriteAfter(i) /\ Surfaced(i)
                     /\ \E m \in RemoteErrors : run.error = GRAPHQL_PREFIX \o m
            /\ NoItemAnswer(i) =>
                  /\ NoWriteAfter(i)
                  /\ i = Len(run.trace) /\ run.pc = "done"
                  /\ run.resp.status = 500
                  /\ run.error = IF run.h = "cec" THEN FAILED_FREELANCER
                                 ELSE FAILED_ITEM

\* crew-transport-link's update has been answered with an error that is not
\* retryable, after its query succeeded
C19_Witness ==
    /\ run.h = "ctl" /\ run.pc = "done" /\ Len(run.trace) = 4
    /\ run.trace[2].ev = "ok" /\ run.trace[3].op.kind = "mutation"
    /\ ErrorsAnswer(4)
    /\ run.resp.status = 500
    /\ run.error = GRAPHQL_PREFIX \o NOT_FOUND_MESSAGE

\* C19 as stated: after an {errors: [...]} answer, or a fetch that returns no
\* item, no further write is issued and the response is 500 with the first
\* remote error message (or 'Failed to fetch item details')
C19_RemoteErrorsEndTheRun ==
    run.h \in RemoteErrorHandlers =>
        \A i \in 1..Len(run.trace) :
            /\ ErrorsAnswer(i) =>
                  /\ NoWriteAfter(i)
                  /\ run.pc = "done" =>
                        /\ run.resp.status = 500
                        /\ \E m \in RemoteErrors : run.error = GRAPHQL_PREFIX \o m
            /\ NoItemAnswer(i) =>
                  /\ NoWriteAfter(i)
                  /\ run.pc = "done" =>
                        (run.resp.status = 500 /\ run.error = FAILED_ITEM)

\* the columns each automation may write
TargetColumns(h) ==
    CASE h = "dca" -> {"dup__of_hire_starts"}
      [] h = "ctl" -> {"link_mm07k8n4", "text_mm07fcs", "link"}
      [] h = "cec" -> {"text_mm09da3v"}
      [] h = "qhl" -> {"text1", "text6"}

\* C20: date-copy-automation, crew-transport-link, crew-email-copy and
\* qh-client-linked send mutations only for the item the event names, and
\* only of their fixed target columns, in every invocation
C20_OnlyTargetColumnsWritten ==
    run.h \in {"dca", "ctl", "cec", "qhl"} =>
        \A i \in 1..Len(run.trace) :
            (run.trace[i].ev = "call" /\ run.trace[i].op.kind = "mutation") =>
                /\ run.trace[i].op.item = run.req.itemId
                /\ run.trace[i].op.cols # {}
                /\ run.trace[i].op.cols \subseteq TargetColumns(run.h)

\* crew-email-copy has written the address after looking the freelancer up,
\* and the invocation failed on the answer
C20_Witness ==
    /\ run.h = "cec" /\ run.pc = "done" /\ run.resp.status = 500
    /\ Len(run.trace) = 4
    /\ run.trace[1].op = Query(FREELANCER)
    /\ run.trace[3].op = Mutation(ITEM, {CEC_TARGET_TEXT_COLUMN})

-----------------------------------------------------------------------------
(* The one mutation of crew-transport-link                                   *)

\* C21: every mutation crew-transport-link sends carries all three target
\* columns, and an invocation sends no two different mutations
C21_AllThreeInOneCall ==
    run.h = "ctl" =>
        \A i \in 1..Len(run.trace) :
            (run.trace[i].ev = "call" /\ run.trace[i].op.kind = "mutation") =>
                /\ run.trace[i].op.cols =
                      {"link_mm07k8n4", "text_mm07fcs", "link"}
                /\ \A j \in 1..Len(run.trace) :
                      (run.trace[j].ev = "call"
                       /\ run.trace[j].op.kind = "mutation") =>
                          run.trace[j].op = run.trace[i].op

\* crew-transport-link has written and answered 200
C21_Witness ==
    /\ run.h = "ctl" /\ run.pc = "done" /\ run.resp = Resp(200, "success")
    /\ \E i \in 1..Len(run.trace) :
          run.trace[i].ev = "call" /\ run.trace[i].op.kind = "mutation"

-----------------------------------------------------------------------------
(* The migration against the automation                                      *)

\* C26: the date-copy derivation applied to the migration's derived value
\* gives the date back, for every valid date and status label, and
\* date-copy-automation run on the migrated item finds the date already
\* correct and writes nothing
C26_MigrationIsReverse ==
    fout.done =>
        /\ fout.back = fin.d
        /\ fout.echo.resp = Resp(200, "No update needed - date already correct")
        /\ fout.echo.mut = {}

\* the migration carried the day over the end of a leap February and the
\* automation took it back
C26_Witness ==
    /\ fout.done
    /\ fin.ymd = <<2000, 2, 29>> /\ fin.label = HIRE_LABEL
    /\ fout.bulk = IsoDate(<<2000, 3, 1>>)
    /\ fout.back = IsoDate(<<2000, 2, 29>>)
    /\ fout.echo.mut = {}

-----------------------------------------------------------------------------
(* The job ID of a link URL                                                  *)

\* id=<digits> stands at position i of url as a query parameter
IdParamAt(url, i) ==
    /\ i + 4 <= Len(url)
    /\ SubSeq(url, i, i + 3) \in {<<"?", "i", "d", "=">>, <<"&", "i", "d", "=">>}
    /\ url[i + 4] \in DigitSet

\* digits is all of the digits that follow position i of url
DigitsAfter(url, i, digits) ==
    /\ Len(digits) >= 1
    /\ i + Len(digits) <= Len(url)
    /\ digits = SubSeq(url, i + 1, i + Len(digits))
    /\ \A k \in 1..Len(digits) : digits[k] \in DigitSet
    /\ i + Len(digits) < Len(url) => url[i + Len(digits) + 1] \notin DigitSet

\* C28: for a URL holding id=<digits> directly after ? or & extractJobId
\* returns the digits that follow the first such id=, and for any other URL
\* (the empty one included) it returns null
C28_JobIdOfAnyPosition ==
    fout.done =>
        IF fin.url # Null /\ \E i \in 1..Len(fin.url) : IdParamAt(fin.url, i)
        THEN \E i \in 1..Len(fin.url) :
                /\ IdParamAt(fin.url, i)
                /\ \A j \in 1..(i - 1) : ~IdParamAt(fin.url, j)
                /\ DigitsAfter(fin.url, i + 3, fout.jobId)
        ELSE fout.jobId = Null

\* the parameter in second position: ?o=1&id=13
C28_Witness ==
    /\ fout.done
    /\ fin.url = <<"?", "o", "=", "1", "&", "i", "d", "=", "1", "3">>
    /\ fout.jobId = <<"1", "3">>

\* a URL with another parameter only
C28_WitnessNone ==
    /\ fout.done
    /\ fin.url = <<"/", "?", "o", "=", "1">>
    /\ fout.jobId = Null

-----------------------------------------------------------------------------
(* First names                                                               *)

\* the characters of name before its first separator
BeforeSeparator(name) ==
    IF \E i \in 1..Len(name) : name[i] \in Separators
    THEN SubSeq(name, 1, (CHOOSE i \in 1..Len(name) :
                             /\ name[i] \in Separators
                             /\ \A j \in 1..(i - 1) : name[j] \notin Separators) - 1)
    ELSE name

\* the positions of seg where a word starts
WordStarts(seg) ==
    {i \in 1..Len(seg) : seg[i] \notin WhiteSpace
                         /\ (i > 1 => seg[i - 1] \in WhiteSpace)}

\* the k-th word of seg
WordNo(seg, k) ==
    LET first == CHOOSE i \in WordStarts(seg) :
                    Cardinality({j \in WordStarts(seg) : j < i}) = k - 1
        final == CHOOSE j \in first..Len(seg) :
                    /\ \A m \in first..j : seg[m] \notin WhiteSpace
                    /\ j < Len(seg) => seg[j + 1] \in WhiteSpace
    IN  SubSeq(seg, first, final)

\* w is an honorific whatever its case, '.' and ',' left aside
IsHonorific(w) ==
    \E p \in {<<"m", "r">>, <<"m", "r", "s">>, <<"m", "s">>, <<"m", "i", "s", "s">>, <<"d", "r">>,
              <<"p", "r", "o", "f">>, <<"s", "i", "r">>, <<"l", "a", "d", "y">>, <<"r", "e", "v">>, <<"m", "x">>} :
        LET letters == {i \in 1..Len(w) : w[i] \notin {".", ","}}
        IN  /\ Cardinality(letters) = Len(p)
            /\ \A i \in letters :
                  toLowerCase(<<w[i]>>) = <<p[Cardinality({j \in letters : j <= i})]>>

\* C29: extractFirstName returns, of the words before the first separator,
\* the second when the first is an honorific and a second one exists, else
\* the first, and the empty string when there is no word; both copies return
\* the same
C29_FirstName ==
    fout.done =>
        LET seg == IF fin.name = Null THEN <<>> ELSE BeforeSeparator(fin.name)
            n == Cardinality(WordStarts(seg))
        IN  /\ fout.abc = IF n = 0 THEN Empty
                          ELSE IF IsHonorific(WordNo(seg, 1)) /\ n > 1
                          THEN WordNo(seg, 2)
                          ELSE WordNo(seg, 1)
            /\ fout.abu = fout.abc

\* "Mr Jonathan Wood - Ooosh Tours": the honorific is passed over
C29_Witness ==
    /\ fout.done
    /\ fin.name = NAME_WITH_COMPANY
    /\ fout.abc = <<"J", "o", "n", "a", "t", "h", "a", "n">>
    /\ fout.abu = fout.abc

\* "Mr. Jo-": the full stop does not hide the honorific and the name ends at
\* the hyphen
C29_WitnessPunctuation ==
    /\ fout.done
    /\ fin.name = <<"M", "r", ".", " ", "J", "o", "-">>
    /\ fout.abc = <<"J", "o">>

-----------------------------------------------------------------------------
(* The field extractors                                                      *)

\* the payload of the column asked for parses to an object
Parses == fin.listed /\ fin.value.kind = "obj"

\* the rendered text of the column asked for, null when there is none
RenderedText == IF fin.listed /\ fin.text \notin {Null, Empty} THEN fin.text ELSE Null

\* C27: each extractor returns the field of its type when the payload parses
\* and holds it, otherwise the rendered text (also for a status payload with
\* an index and no label), otherwise null; the relation extractor returns
\* the identifiers of the payload's array and otherwise the empty list
C27_ExtractorsFallBack ==
    fout.done =>
        /\ fout.date = IF Parses /\ fin.value.date # Null THEN fin.value.date
                       ELSE RenderedText
        /\ fout.label = IF Parses /\ fin.value.label # Null THEN fin.value.label
                        ELSE RenderedText
        /\ fout.url = IF Parses /\ fin.value.url # Null THEN fin.value.url
                      ELSE RenderedText
        /\ fout.email = IF Parses /\ fin.value.email # Null THEN fin.value.email
                        ELSE RenderedText
        /\ Len(fout.linked) = IF Parses /\ fin.value.linkedPulseIds.is = "array"
                              THEN Len(fin.value.linkedPulseIds.items) ELSE 0
        /\ \A i \in 1..Len(fout.linked) :
              fout.linked[i] = fin.value.linkedPulseIds.items[i].linkedPulseId

\* a status payload holding an index and no label: the text is returned
C27_Witness ==
    /\ fout.done /\ Parses
    /\ fin.value.index /\ fin.value.label = Null /\ fin.text = SOME_TEXT
    /\ fout.label = SOME_TEXT
    /\ fout.linked = <<>>

\* a payload that is no JSON: every extractor falls back
C27_WitnessBadJson ==
    /\ fout.done /\ fin.listed /\ fin.value.kind = "bad" /\ fin.text = Empty
    /\ fout.date = Null /\ fout.email = Null /\ fout.linked = <<>>

-----------------------------------------------------------------------------
(* The bulk migration                                                        *)

\* C22 as stated: the invocation stops before its time budget is used up
\* (the pauses between batches alone count as time spent)
C22_StopsWithinBudget ==
    run.h = "bulk" => run.slept < TimeBudgetMs

\* what an execute run attempts on the board: the updates the analysis of
\* all its items queues
Queued(board) == Analyse(board, Len(board)).updates

\* the run is a dry run that has answered
DryRunDone == run.h = "bulk" /\ run.pc = "done" /\ run.resp.mode = "DRY RUN - No changes made"

\* the run is a migration that has answered
ExecutedDone == run.h = "bulk" /\ run.pc = "done" /\ run.resp.mode = "EXECUTED"

\* C23 as stated: the updates a dry run reports are the updates an execute
\* run on the same board attempts
C23_DryRunReportsAll ==
    DryRunDone => run.resp.updatePreview = Queued(run.board)

\* C23: no mutation is sent unless execute is 'true'; a dry run reports the
\* number of updates an execute run on the same board attempts and lists the
\* first 50 of them in queue order; an execute run attempts exactly those
C23_DryRunPreview ==
    run.h = "bulk" =>
        /\ run.params.execute # "true" => run.writes = <<>>
        /\ DryRunDone =>
              LET queued == Queued(run.board)
              IN  /\ run.resp.totalUpdatesQueued = Len(queued)
                  /\ Len(run.resp.updatePreview) =
                        IF Len(queued) <= 50 THEN Len(queued) ELSE 50
                  /\ \A k \in 1..Len(run.resp.updatePreview) :
                        run.resp.updatePreview[k] = queued[k]
        /\ ExecutedDone =>
              LET queued == Queued(run.board)
              IN  /\ Len(run.writes) = Len(queued)
                  /\ \A k \in 1..Len(run.writes) :
                        /\ run.writes[k].itemId = queued[k].itemId
                        /\ run.writes[k].date = queued[k].newTargetDate

\* a dry run on a board with more than 50 updates to make, asked for with
\* execute=false
C23_Witness ==
    /\ DryRunDone
    /\ run.params.execute = "false"
    /\ run.resp.totalUpdatesQueued > 50
    /\ Len(run.resp.updatePreview) = 50
    /\ run.writes = <<>>

IsFailedWrite(w) == ~w.ok

\* C24: in an execute run the writes attempted are the queued updates in
\* queue order, each once, whatever the outcome of the earlier ones; the
\* failures list holds the failed ones; a run that has begun to write ends
\* with the EXECUTED response, in which successfulUpdates + failedUpdates is
\* the number of queued updates
C24_FailedWriteNeverAborts ==
    run.h = "bulk" =>
        /\ Len(run.writes) <= Len(run.analysis.updates)
        /\ \A k \in 1..Len(run.writes) :
              /\ run.writes[k].itemId = run.analysis.updates[k].itemId
              /\ run.writes[k].date = run.analysis.updates[k].newTargetDate
        /\ LET failed == SelectSeq(run.writes, IsFailedWrite)
           IN  /\ Len(run.failedUpdates) = Len(failed)
               /\ \A k \in 1..Len(failed) : run.failedUpdates[k] = failed[k].itemId
        /\ (run.pc = "done" /\ run.writes # <<>>) =>
              /\ run.resp.mode = "EXECUTED"
              /\ Len(run.writes) = Len(run.analysis.updates)
              /\ run.resp.successfulUpdates + run.resp.failedUpdates =
                    Len(run.analysis.updates)
              /\ run.resp.failures = run.failedUpdates

\* the first write and the last of the first batch of a migration of more
\* than one batch failed, and the migration went on to the last update
C24_Witness ==
    /\ ExecutedDone
    /\ Len(run.analysis.updates) > BATCH_SIZE
    /\ ~run.writes[1].ok /\ ~run.writes[BATCH_SIZE].ok
    /\ run.resp.failedUpdates = 2
    /\ run.resp.successfulUpdates = Len(run.analysis.updates) - 2

\* C25 as stated: a source value that is no date is never queued for update
\* nor written, and its item is entered in the errors list
C25_UnparseableNeverWritten ==
    run.h = "bulk" =>
        /\ \A k \in 1..Len(run.analysis.updates) :
              IsDateString(run.analysis.updates[k].sourceDate)
        /\ \A k \in 1..Len(run.writes) : IsDateString(run.writes[k].date)
        /\ \A i \in 1..run.analysis.totalItems :
              run.board[i] = "invalid" =>
                  \E k \in 1..Len(run.analysis.errors) :
                      run.analysis.errors[k].itemId = 1000 + i

-----------------------------------------------------------------------------
(* The dependency check                                                      *)

\* C30 as stated: a repository one of whose dependencies has a known
\* vulnerability is reported with a positive securityIssues counter and the
\* status 'critical', and the overall status is 'critical'
C30_VulnerabilityIsCritical ==
    fout.done =>
        \A i \in 1..Len(fin.repos) :
            (/\ fin.repos[i].fetched
             /\ \E k \in 1..Len(fin.repos[i].dependencies) :
                   fin.repos[i].dependencies[k].vulnerable) =>
                /\ fout.repos[i].securityIssues > 0
                /\ fout.repos[i].status = "critical"
                /\ fout.overall = "critical"

-----------------------------------------------------------------------------
(* Handler writes against external edits                                     *)

\* C31 as stated: a write of the handler leaves the URL of the link column
\* as it is at the moment of the write (only an external edit changes it)
C31_WriteKeepsCurrentUrl ==
    [][nEdits' = nEdits => item'.link.url = item.link.url]_vars

\* every delivery has been made and every invocation has returned
AllProcessed == queue = <<>> /\ NoneInFlight

\* C32 as stated: once every delivery has been processed and the source
\* date is not empty, dup__of_hire_starts holds the value derived from the
\* source date and the status the item has then
C32_FinalTargetDerived ==
    (handler = "dca" /\ AllProcessed /\ item.src # Empty) =>
        item.tgt = DcaTargetDate(item.src,
                                 IF item.status = Empty THEN Null ELSE item.status)

\* C33 as stated: once every delivery has been processed (none answered
\* 500), text_mm09da3v holds the email of the first freelancer connected to
\* the item, and is empty when none is connected
C33_FinalEmailOfConnected ==
    (/\ handler = "cec"
     /\ queue = <<>>
     /\ \A s \in Slots : inv[s].pc = "idle"
     /\ ~last.failed) =>
        item.text = IF item.connected = <<>> THEN Empty
                    ELSE EmailOf(item.connected[1])

(* The handlers composed: cascades of writes *)

\* C34: crew-transport-link is the only handler whose mutations carry a
\* column some handler's webhook is subscribed to (its own link column), and
\* after a single external edit the handler writes at most once: the
\* delivery its own write causes ends in no further write
C34_FiniteCascade ==
    /\ \A h \in Handlers : \A g \in Handlers :
          Triggers(h, g) <=> (h = "ctl" /\ g = "ctl")
    /\ \A bc \in WRITTEN_COLUMNS("ctl") :
          bc[2] \in MONITORED_COLUMNS("ctl") <=> bc[2] = SOURCE_LINK_COLUMN
    /\ nEdits = 1 => sinceEdit <= 1
    /\ (nEdits = 1 /\ last.cause = "self") => last.wok = "none"

\* the delivery caused by the handler's own write has been processed without
\* a write, and nothing is left to do
C34_Witness ==
    /\ handler = "ctl"
    /\ nEdits = 1
    /\ sinceEdit = 1
    /\ AllProcessed
    /\ last.cause = "self"
    /\ last.got = "item"
    /\ last.mut = {}

(* address-book-updates: a name change *)

IsMutationCall(e) == e.ev = "call" /\ e.op.kind = "mutation"
IsMutationOutcome(e) == e.ev \in {"ok", "fail"} /\ e.op.kind = "mutation"
\* the mutation was not applied: nothing was sent, the request was rejected,
\* or the remote answered with an error status or an errors body
MutationFailed(e) == IsMutationOutcome(e) /\ (e.ev = "fail" \/ e.http # 200)

\* C35 as stated: on a name change address-book-updates writes text_14 and
\* text on the Address Book item, then text6 on each linked item in payload
\* order, one mutation each; a failed mutation is the last remote call and
\* the response is then 500; with no failure every linked item is written
C35_NameSyncStopsAtFailure ==
    (run.h = "abu" /\ run.pc = "done" /\ run.req.columnId \in {"name", Undefined}) =>
        LET muts == SelectSeq(run.trace, IsMutationCall)
        IN  /\ \A j \in 1..Len(muts) :
                  muts[j].op = IF j = 1
                               THEN Mutation(run.req.itemId,
                                             {COLUMNS_fullName, COLUMNS_firstName})
                               ELSE Mutation(LinkedItem(j - 1), {COLUMNS_clientName})
            /\ \A i \in 1..Len(run.trace) :
                  MutationFailed(run.trace[i]) =>
                      /\ i = Len(run.trace)
                      /\ run.resp.status = 500
            /\ (muts # <<>> /\ \A i \in 1..Len(run.trace) : ~MutationFailed(run.trace[i])) =>
                  (Len(muts) = 1 + run.linked /\ run.resp.status = 200)

(* quote-confirmed-automation *)

\* the days from today to the day a date column shows, counted on the calendar
HireDay(s) == MakeDay(StrNum(SubSeq(s, 1, 4)), StrNum(SubSeq(s, 6, 7)) - 1,
                      StrNum(SubSeq(s, 9, 10)))
DaysKnown(s) == Truthy(s) /\ IsDateString(s)
DaysAtMost(s, n) == DaysKnown(s) /\ HireDay(s) - Day(fin.now) <= n

\* C36: the handler acts only on a fetched status6 of 'Confirmed quote'; it
\* then tries the alert email exactly when the hire is known to be at most 3
\* days away and the status8 update exactly when the type is 'Vehicle', with
\* 'Email now' up to 10 days and 'NEEDED' otherwise; neither failure stops
\* the other action, and the response is 200
C36_ConfirmedQuoteActions ==
    (handler = "qca" /\ last.returned /\ last.status # 500) =>
        LET it == last.itemData
        IN  IF it.status6 # TRIGGER_VALUE
            THEN last.mail = "none" /\ last.update = "none"
                 /\ last.message = "Status not confirmed quote"
            ELSE /\ last.mail # "none" <=> DaysAtMost(it.date, LAST_MINUTE_THRESHOLD)
                 /\ last.update # "none" <=> it.type = VEHICLE
                 /\ last.update # "none" =>
                       last.newStatus =
                           IF DaysAtMost(it.date, VEHICLE_EMAIL_NOW_THRESHOLD)
                           THEN EMAIL_NOW ELSE NEEDED
                 /\ last.update = "done" => item.status8 = last.newStatus
                 /\ last.status = 200 /\ last.message = "success"

\* a hire three days away, of a vehicle: the email failed, status8 was set
C36_Witness ==
    /\ handler = "qca"
    /\ last.returned
    /\ last.itemData.date = Date240304
    /\ last.actions = <<"email_failed", "set_status8">>
    /\ last.newStatus = EMAIL_NOW
    /\ last.status = 200

\* an unparseable hire date: no email, status8 set to NEEDED although the
\* update failed the response is 200
C36_WitnessUnknown ==
    /\ handler = "qca"
    /\ last.returned
    /\ last.itemData.date = INVALID_DATE
    /\ last.actions = <<"status_update_failed">>
    /\ last.newStatus = NEEDED
    /\ last.status = 200

\* C37 as stated: the deliveries of one change of status6 to 'Confirmed
\* quote' (the first and its repeats, no external change in between) send
\* the alert email at most once
C37_AlertSentOnce ==
    handler = "qca" => sinceEdit <= 1

(* generate-tool-token *)

\* what the request carries: nothing when its body is no JSON object
SentSession == IF fin.body = "object" THEN fin.sessionToken ELSE NoToken
SentToolId == IF fin.body = "object" THEN fin.toolId ELSE Undefined

\* the session token has the form session.<expiry>.<signature>, its expiry
\* is not in the past and its signature is the keyed hash of session.<expiry>
SessionIsValid ==
    /\ SentSession.kind = "string"
    /\ Len(SentSession.parts) = 3
    /\ SentSession.parts[1] = "session"
    /\ ~parseInt(SentSession.parts[2]).nan
    /\ parseInt(SentSession.parts[2]).n >= fin.now
    /\ SentSession.parts[3] = Sign(fin.secret, <<"session", SentSession.parts[2]>>)

SecretIsSet == fin.secret # ""
ToolIsGiven == SentToolId \notin {Undefined, ""}

\* the answer to a POST is 200 with a token exactly when the secret is set,
\* the session is valid and a toolId is given; otherwise 500, 401, 400 in
\* that order with no token; the token expires 5 minutes after it was made
TokenRules ==
    LET r == fout.resp
    IN  /\ (r.status = 200 /\ r.success /\ r.token # NoToken)
              <=> (SecretIsSet /\ SessionIsValid /\ ToolIsGiven)
        /\ ~SecretIsSet => r.status = 500
        /\ (SecretIsSet /\ ~SessionIsValid) => r.status = 401
        /\ (SecretIsSet /\ SessionIsValid /\ ~ToolIsGiven) => r.status = 400
        /\ r.status # 200 => (~r.success /\ r.token = NoToken)
        /\ r.status = 200 =>
              /\ Len(r.token.parts) = 4
              /\ parseInt(r.token.parts[1]) = JsNum(fin.later + TOKEN_DURATION_MS)
              /\ r.token.parts[4] = Sign(fin.secret, SubSeq(r.token.parts, 1, 3))

C38_WitnessForged ==
    /\ fout.done
    /\ fin.method = "POST" /\ fin.body = "object" /\ SecretIsSet /\ ToolIsGiven
    /\ SentSession.kind = "string" /\ Len(SentSession.parts) = 3
    /\ SentSession.parts[3].key # fin.secret
    /\ fout.resp.status = 401

(* health-check *)

\* C39: in the report every service result is 'healthy' or 'unhealthy';
\* overall is 'critical' exactly when Monday.com or SMTP is unhealthy,
\* 'degraded' exactly when both are healthy and another service is
\* unhealthy, 'healthy' otherwise; the status is 200 exactly when overall is
\* 'healthy', 503 otherwise
C39_OverallHealth ==
    (fout.done /\ fin.method # "OPTIONS") =>
        LET sv == fout.services
            bad(x) == sv[x].status = "unhealthy"
        IN  /\ \A x \in Services : sv[x].status \in {"healthy", "unhealthy"}
            /\ fout.overall \in {"critical", "degraded", "healthy"}
            /\ fout.overall = "critical" <=> (bad("monday") \/ bad("smtp"))
            /\ fout.overall = "degraded" <=>
                  (/\ ~bad("monday") /\ ~bad("smtp")
                   /\ \E x \in Services \ {"monday", "smtp"} : bad(x))
            /\ fout.statusCode = 200 <=> fout.overall = "healthy"
            /\ fout.statusCode \in {200, 503}

\* SMTP is not configured, everything else answers: critical, 503
C39_Witness ==
    /\ fout.done
    /\ fin.method = "GET"
    /\ fout.services.smtp.status = "unhealthy"
    /\ \A x \in Services \ {"smtp"} : fout.services[x].status = "healthy"
    /\ fout.overall = "critical"
    /\ fout.statusCode = 503

\* the Claude API is rate limited and counts as healthy: 200
C39_WitnessRateLimited ==
    /\ fout.done
    /\ fout.services.claude.message = "API responding (rate limited)"
    /\ fout.overall = "healthy"
    /\ fout.statusCode = 200

(* dependency-check: the recommendations *)

\* C40: the overall status of the report is 'healthy' if and only if its
\* recommendations are the single entry 'No actions required this week -
\* all systems healthy' of priority 'none'
C40_HealthyIffNoActions ==
    fout.done =>
        (fout.overall = "healthy" <=> fout.recommendations = <<NO_ACTIONS>>)

\* only the Monday.com API version is about to be sunset: one
\* recommendation, overall 'warning'
C40_Witness ==
    /\ fout.done
    /\ fin.nodeJs = "healthy"
    /\ fin.sharedServices = "warning"
    /\ \A i \in 1..Len(fin.repos) :
          fin.repos[i].securityIssues = 0 /\ fin.repos[i].majorUpdates = 0
    /\ Len(fout.recommendations) = 1
    /\ fout.recommendations[1].priority = "high"
    /\ fout.overall = "warning"

\* nothing to report: overall 'healthy' and the single entry
C40_WitnessHealthy ==
    /\ fout.done
    /\ fout.overall = "healthy"
    /\ fout.recommendations = <<NO_ACTIONS>>

====
